---- MODULE Spec2Model ----
(***************************************************************************)
(* Watch-party server: the socket handlers of videoSyncHandler and         *)
(* roomHandler (both in src/src/lib/socketStore.ts) over the Prisma tables *)
(* of schema.prisma.  A handler is split at its awaits: every store call   *)
(* is one atomic step, and the steps of different in-flight handlers       *)
(* interleave freely.  The synchronous prefix of a handler (the identity   *)
(* check and the issue of its first store call) touches no shared state,   *)
(* so a handler's first step is modelled at its first store call.          *)
(***************************************************************************)
EXTENDS Integers, Sequences, FiniteSets, TLC

\* ---------------------------------------------------------------- bounds
MaxEvents == 3      \* events received in one behaviour
MaxTs     == 2      \* client timestamps are 1..MaxTs
MaxTime   == 1      \* seek targets are 1..MaxTime
MaxDeletes == 1     \* Video rows deleted in one behaviour
MaxPos    == 6      \* player positions are 0..MaxPos quarter seconds
MaxOps    == 3      \* renders with new props, user actions and loads of one player
MaxLog    == 6      \* socket events, sync states and seeks of one room page
MaxChat   == 2      \* chat messages received in one behaviour

\* ---------------------------------------------------------------- static data
Sockets  == {"c1", "c2", "c3", "c4"}
NoUser   == "none"
NoVideo  == "null"          \* currentVideoId: null
NoRoom   == "none"
NoTs     == -1              \* a payload without lastEventTimestamp

\* socket.user as set by the io.use middleware / handleRoomEvents: c3 connected
\* without a token and carries no identity; c4 is a second connection of u1.
SocketUser(c) ==
    CASE c = "c1" -> "u1"
      [] c = "c2" -> "u2"
      [] c = "c4" -> "u1"
      [] OTHER    -> NoUser

\* Room table (rooms are created and never deleted by the handlers); "r0" names no Room.
Room    == {"r1", "r2"}
RoomIds == {"r1", "r0"}               \* the roomId of an event's payload

\* payload values a client may send
Timestamps == 1..MaxTs
Times      == 1..MaxTime
VideoIds   == {"v1", "v2", "v0"}      \* "v0" names no Video

VARIABLES
    SyncState,          \* table SyncState: rows, roomId unique
    RoomParticipant,    \* table RoomParticipant: rows, (userId, roomId) unique
    Video,              \* table Video
    rooms,              \* rooms[c]: socket.rooms without the socket's own room
    connected,          \* connected[c]: the socket has not disconnected
    nextId,             \* next RoomParticipant.id
    tasks,              \* the handlers started so far, in start order
    player,             \* one client's VideoPlayer: props, refs and video element
    page,               \* one client's room page: socket store, listeners, seek timer
    screens             \* screens[c]: the sync state the page of connection c holds

vars == <<SyncState, RoomParticipant, Video, rooms, connected, nextId, tasks, player,
          page, screens>>
storeVars == <<SyncState, RoomParticipant, Video, nextId>>
ioVars    == <<rooms, connected>>
clientVars == <<player, page, screens>>

\* ---------------------------------------------------------------- helpers
\* mutant: the identity check is missing
HasUser_Always(c) == TRUE

\* if (!socket.user) ...
HasUser(c) == SocketUser(c) # NoUser

\* prisma.syncState.findUnique({ where: { roomId } }): the set of matching rows (0 or 1)
FindSyncState(roomId) == {s \in SyncState : s.roomId = roomId}

\* mutant: the lookup forgets the roomId filter
FindVideo_AnyRoom(videoId, roomId) == {v \in Video : v.id = videoId}

\* prisma.video.findFirst({ where: { id: videoId, roomId } })
FindVideo(videoId, roomId) == {v \in Video : v.id = videoId /\ v.roomId = roomId}

\* SyncState_currentVideoId_fkey: the referenced Video row exists
VideoExists(videoId) == \E v \in Video : v.id = videoId

\* connections a room broadcast reaches: io.to(roomId)
InRoom(roomId) == {c \in Sockets : roomId \in rooms[c]}

\* mutant: the broadcast always uses io.to(roomId)
BroadcastTo_All(roomId, initiator) == InRoom(roomId)

\* socket.to(roomId) excludes the emitting socket; io.to(roomId) excludes nobody
BroadcastTo(roomId, initiator) ==
    IF initiator # NoUser THEN InRoom(roomId) \ {initiator} ELSE InRoom(roomId)

Msg(type, to, payload) == [type |-> type, to |-> to, payload |-> payload]
ErrorMsg(c, text) == Msg("error", {c}, [message |-> text])

\* the sync:update payload built from a stored row (videoUrl and title are read
\* off the referenced Video; updatedAt is server time and is not modelled)
SyncPayload(s) ==
    [roomId |-> s.roomId, currentVideoId |-> s.currentVideoId,
     isPlaying |-> s.isPlaying, progress |-> s.progress,
     lastEventTimestamp |-> s.lastEventTimestamp]

\* the default payload of video:requestSync when the room has no SyncState
DefaultPayload(roomId) ==
    [roomId |-> roomId, currentVideoId |-> NoVideo, isPlaying |-> FALSE,
     progress |-> 0, lastEventTimestamp |-> NoTs]

\* create: of the video:play upsert (progress and currentVideoId take their column defaults)
PlayCreate(roomId, ts) ==
    [roomId |-> roomId, currentVideoId |-> NoVideo, isPlaying |-> TRUE,
     progress |-> 0, lastEventTimestamp |-> ts]

\* update: of the video:play upsert
PlayUpdate(s, ts) == [s EXCEPT !.isPlaying = TRUE, !.lastEventTimestamp = ts]

\* mutant: the pause is applied to the whole record only when it is not older
PauseUpdate_IfNewer(s, ts) ==
    IF ts < s.lastEventTimestamp THEN s
    ELSE [s EXCEPT !.isPlaying = FALSE, !.lastEventTimestamp = ts]

\* data: of the video:pause updateMany
PauseUpdate(s, ts) == [s EXCEPT !.isPlaying = FALSE, !.lastEventTimestamp = ts]

\* mutant: seeking implies play
SeekUpdate_Plays(s, time, ts) ==
    [s EXCEPT !.progress = time, !.isPlaying = TRUE, !.lastEventTimestamp = ts]

\* data: of the video:seek updateMany
SeekUpdate(s, time, ts) == [s EXCEPT !.progress = time, !.lastEventTimestamp = ts]

\* create: of the video:change upsert
ChangeRow(roomId, videoId, ts) ==
    [roomId |-> roomId, currentVideoId |-> videoId, isPlaying |-> FALSE,
     progress |-> 0, lastEventTimestamp |-> ts]

\* mutant: update: forgets progress: 0
ChangeWrite_KeepsProgress(old, roomId, videoId, ts) ==
    IF old = {} THEN ChangeRow(roomId, videoId, ts)
    ELSE [(CHOOSE s \in old : TRUE) EXCEPT !.currentVideoId = videoId, !.isPlaying = FALSE,
                                          !.lastEventTimestamp = ts]

\* mutant: update: is made conditional on the timestamp, as the ordering rule of
\* play/pause/seek would have it
ChangeWrite_Guarded(old, roomId, videoId, ts) ==
    IF old = {} THEN ChangeRow(roomId, videoId, ts)
    ELSE LET o == CHOOSE s \in old : TRUE IN
         IF o.lastEventTimestamp > ts THEN o
         ELSE [o EXCEPT !.currentVideoId = videoId, !.isPlaying = FALSE,
                        !.progress = 0, !.lastEventTimestamp = ts]

\* the video:change upsert over the rows old of the room: update: writes the same
\* four fields as create:, whatever the row holds
ChangeWrite(old, roomId, videoId, ts) ==
    IF old = {} THEN ChangeRow(roomId, videoId, ts)
    ELSE [(CHOOSE s \in old : TRUE) EXCEPT !.currentVideoId = videoId, !.isPlaying = FALSE,
                                          !.progress = 0, !.lastEventTimestamp = ts]

\* the message of a handler's catch block
FailText(kind) ==
    CASE kind = "play"        -> "Failed to process video:play event"
      [] kind = "pause"       -> "Failed to process video:pause event"
      [] kind = "seek"        -> "Failed to process video:seek event"
      [] kind = "change"      -> "Failed to process video:change event"
      [] kind = "requestSync" -> "Failed to fetch sync state."
      [] kind = "join"        -> "Failed to join room"
      [] OTHER                -> "Failed to leave room"

\* a handler instance: its payload, its position and the messages it emitted
Task(kind, c, roomId, ts, time, videoId, pc, out) ==
    [kind |-> kind, socket |-> c, roomId |-> roomId, timestamp |-> ts,
     time |-> time, videoId |-> videoId, pc |-> pc, out |-> out,
     todo |-> {}, found |-> 0, userIdToInvite |-> NoUser, payload |-> <<>>]

CanStart(c) == Len(tasks) < MaxEvents /\ connected[c]
Start(t) == tasks' = Append(tasks, t)
\* a handler that returns at its identity check never reads its payload
Rejected(kind, c, text) ==
    Task(kind, c, NoRoom, 0, 0, NoVideo, "done", <<ErrorMsg(c, text)>>)

\* ---------------------------------------------------------------- video sync handlers
\* socket.on('video:play'): identity check, then the upsert; the upsert's create
\* violates SyncState_roomId_fkey when roomId names no Room and the catch reports it.
\* The guard updatedSyncState.lastEventTimestamp === timestamp compares the row just
\* written with the timestamp just written.
VideoPlay(c, roomId, ts) ==
    /\ CanStart(c)
    /\ IF ~HasUser(c)
       THEN /\ Start(Rejected("play", c, "Authentication required."))
            /\ UNCHANGED SyncState
       ELSE LET old == FindSyncState(roomId) IN
            IF old = {} /\ roomId \notin Room
            THEN /\ Start(Task("play", c, roomId, ts, 0, NoVideo, "done",
                            <<ErrorMsg(c, "Failed to process video:play event")>>))
                 /\ UNCHANGED SyncState
            ELSE LET new == IF old = {} THEN PlayCreate(roomId, ts)
                            ELSE PlayUpdate(CHOOSE s \in old : TRUE, ts) IN
                 /\ SyncState' = (SyncState \ old) \cup {new}
                 /\ Start(Task("play", c, roomId, ts, 0, NoVideo,
                               IF new.lastEventTimestamp = ts THEN "emit" ELSE "done", <<>>))
    /\ UNCHANGED <<RoomParticipant, Video, nextId, ioVars, clientVars>>

\* mutant: video:pause upserts like video:play and creates the missing row
VideoPause_Upsert(c, roomId, ts) ==
    /\ CanStart(c)
    /\ IF ~HasUser(c)
       THEN /\ Start(Rejected("pause", c, "Authentication required."))
            /\ UNCHANGED SyncState
       ELSE LET old == FindSyncState(roomId)
                new == IF old = {} THEN [PlayCreate(roomId, ts) EXCEPT !.isPlaying = FALSE]
                       ELSE PauseUpdate(CHOOSE s \in old : TRUE, ts) IN
            /\ SyncState' = (SyncState \ old) \cup {new}
            /\ Start(Task("pause", c, roomId, ts, 0, NoVideo, "reread", <<>>))
    /\ UNCHANGED <<RoomParticipant, Video, nextId, ioVars, clientVars>>

\* socket.on('video:pause'): updateMany touches the rows of the room (count 0 or 1)
VideoPause(c, roomId, ts) ==
    /\ CanStart(c)
    /\ IF ~HasUser(c)
       THEN /\ Start(Rejected("pause", c, "Authentication required."))
            /\ UNCHANGED SyncState
       ELSE LET old == FindSyncState(roomId) IN
            /\ SyncState' = (SyncState \ old) \cup {PauseUpdate(s, ts) : s \in old}
            /\ Start(Task("pause", c, roomId, ts, 0, NoVideo,
                          IF Cardinality(old) > 0 THEN "reread" ELSE "done", <<>>))
    /\ UNCHANGED <<RoomParticipant, Video, nextId, ioVars, clientVars>>

\* mutant: a seek that finds no record reports it to the sender
VideoSeek_Reports(c, roomId, time, ts) ==
    /\ CanStart(c)
    /\ IF ~HasUser(c)
       THEN /\ Start(Rejected("seek", c, "Authentication required."))
            /\ UNCHANGED SyncState
       ELSE LET old == FindSyncState(roomId) IN
            /\ SyncState' = (SyncState \ old) \cup {SeekUpdate(s, time, ts) : s \in old}
            /\ Start(Task("seek", c, roomId, ts, time, NoVideo,
                          IF Cardinality(old) > 0 THEN "reread" ELSE "done",
                          IF Cardinality(old) > 0 THEN <<>>
                          ELSE <<ErrorMsg(c, FailText("seek"))>>))
    /\ UNCHANGED <<RoomParticipant, Video, nextId, ioVars, clientVars>>

\* socket.on('video:seek')
VideoSeek(c, roomId, time, ts) ==
    /\ CanStart(c)
    /\ IF ~HasUser(c)
       THEN /\ Start(Rejected("seek", c, "Authentication required."))
            /\ UNCHANGED SyncState
       ELSE LET old == FindSyncState(roomId) IN
            /\ SyncState' = (SyncState \ old) \cup {SeekUpdate(s, time, ts) : s \in old}
            /\ Start(Task("seek", c, roomId, ts, time, NoVideo,
                          IF Cardinality(old) > 0 THEN "reread" ELSE "done", <<>>))
    /\ UNCHANGED <<RoomParticipant, Video, nextId, ioVars, clientVars>>

\* video:pause / video:seek after the write: findUnique, then the broadcast guard
Reread(e) ==
    /\ e \in 1..Len(tasks)
    /\ tasks[e].pc = "reread"
    /\ LET t == tasks[e]
           cur == FindSyncState(t.roomId)
           pass == \E s \in cur : s.lastEventTimestamp = t.timestamp IN
       tasks' = [tasks EXCEPT ![e].pc = IF pass THEN "emit" ELSE "done"]
    /\ UNCHANGED <<storeVars, ioVars, clientVars>>

\* socket.on('video:change'), first store call: the video must exist in the room
VideoChange(c, roomId, videoId, ts) ==
    /\ CanStart(c)
    /\ IF ~HasUser(c)
       THEN Start(Rejected("change", c, "Authentication required."))
       ELSE IF FindVideo(videoId, roomId) = {}
       THEN Start(Task("change", c, roomId, ts, 0, videoId, "done",
                       <<ErrorMsg(c, "Video not found in room")>>))
       ELSE Start(Task("change", c, roomId, ts, 0, videoId, "upsert", <<>>))
    /\ UNCHANGED <<storeVars, ioVars, clientVars>>

\* socket.on('video:change'), the upsert; emitSyncUpdate(roomId) is then called
\* without an initiating socket. SyncState_currentVideoId_fkey rejects the write when
\* the Video row has gone since the findFirst, and the catch block reports it.
ChangeUpsert(e) ==
    /\ e \in 1..Len(tasks)
    /\ tasks[e].kind = "change" /\ tasks[e].pc = "upsert"
    /\ LET t == tasks[e] IN
       IF ~VideoExists(t.videoId)
       THEN /\ tasks' = [tasks EXCEPT ![e].pc = "done",
                           ![e].out = t.out \o <<ErrorMsg(t.socket, FailText("change"))>>]
            /\ UNCHANGED SyncState
       ELSE /\ SyncState' = (SyncState \ FindSyncState(t.roomId))
                               \cup {ChangeWrite(FindSyncState(t.roomId), t.roomId,
                                                 t.videoId, t.timestamp)}
            /\ tasks' = [tasks EXCEPT ![e].pc = "emit"]
    /\ UNCHANGED <<RoomParticipant, Video, nextId, ioVars, clientVars>>

\* what emitSyncUpdate sends for handler e: it re-reads the row and broadcasts it
\* when there is one
Broadcast(e) ==
    LET t == tasks[e]
        cur == FindSyncState(t.roomId)
        initiator == IF t.kind = "change" THEN NoUser ELSE t.socket IN
    IF cur = {} THEN <<>>
    ELSE <<Msg("sync:update", BroadcastTo(t.roomId, initiator),
               SyncPayload(CHOOSE s \in cur : TRUE))>>

\* emitSyncUpdate, the messages staying with the handler that sent them
EmitSyncUpdate(e) ==
    /\ e \in 1..Len(tasks)
    /\ tasks[e].pc = "emit"
    /\ tasks' = [tasks EXCEPT ![e].pc = "done", ![e].out = tasks[e].out \o Broadcast(e)]
    /\ UNCHANGED <<storeVars, ioVars, clientVars>>

\* mutant: the read is an upsert that creates the missing row
VideoRequestSync_Upsert(c, roomId) ==
    /\ CanStart(c)
    /\ IF ~HasUser(c)
       THEN /\ Start(Rejected("requestSync", c, "Authentication required."))
            /\ UNCHANGED SyncState
       ELSE LET cur == FindSyncState(roomId)
                row == IF cur = {} THEN [PlayCreate(roomId, 0) EXCEPT !.isPlaying = FALSE]
                       ELSE CHOOSE s \in cur : TRUE IN
            /\ SyncState' = IF roomId \in Room THEN SyncState \cup {row} ELSE SyncState
            /\ Start(Task("requestSync", c, roomId, 0, 0, NoVideo, "done",
                          <<Msg("sync:update", {c},
                                IF cur = {} THEN DefaultPayload(roomId) ELSE SyncPayload(row))>>))
    /\ UNCHANGED <<RoomParticipant, Video, nextId, ioVars, clientVars>>

\* socket.on('video:requestSync')
VideoRequestSync(c, roomId) ==
    /\ CanStart(c)
    /\ IF ~HasUser(c)
       THEN Start(Rejected("requestSync", c, "Authentication required."))
       ELSE LET cur == FindSyncState(roomId)
                payload == IF cur = {} THEN DefaultPayload(roomId)
                           ELSE SyncPayload(CHOOSE s \in cur : TRUE) IN
            Start(Task("requestSync", c, roomId, 0, 0, NoVideo, "done",
                       <<Msg("sync:update", {c}, payload)>>))
    /\ UNCHANGED <<storeVars, ioVars, clientVars>>

\* ---------------------------------------------------------------- store failures
SyncKinds == {"play", "pause", "seek", "change", "requestSync"}

\* the first store call of a video handler throws: nothing was written, the catch
\* block emits the handler's message to the socket
StoreThrowsFirst(kind, c) ==
    /\ CanStart(c)
    /\ HasUser(c)
    /\ Start(Rejected(kind, c, FailText(kind)))
    /\ UNCHANGED <<storeVars, ioVars, clientVars>>

\* a later store call throws. The findUnique of pause/seek after the write and the
\* upsert of change and join throw into the handler's catch block; the findUnique
\* inside emitSyncUpdate throws into emitSyncUpdate's own catch block, which only logs.
StoreThrows(e) ==
    /\ e \in 1..Len(tasks)
    /\ tasks[e].pc \in {"reread", "upsert", "emit"}
    /\ tasks' = [tasks EXCEPT ![e].pc = "done",
                   ![e].out = IF tasks[e].pc = "emit" THEN tasks[e].out
                              ELSE tasks[e].out \o
                                   <<ErrorMsg(tasks[e].socket, FailText(tasks[e].kind))>>]
    /\ UNCHANGED <<storeVars, ioVars, clientVars>>

\* ---------------------------------------------------------------- room handlers
\* prisma.roomParticipant rows of (userId, roomId)
FindParticipant(userId, roomId) ==
    {p \in RoomParticipant : p.userId = userId /\ p.roomId = roomId}

\* mutant: the room is not looked up
RoomJoin_AnyRoom(c, roomId) ==
    /\ CanStart(c)
    /\ IF ~HasUser(c)
       THEN Start(Rejected("join", c, "Authentication required to join a room."))
       ELSE Start(Task("join", c, roomId, 0, 0, NoVideo, "upsert", <<>>))
    /\ UNCHANGED <<storeVars, ioVars, clientVars>>

\* socket.on('room:join'), up to its first store call: identity, then the room must exist
RoomJoin(c, roomId) ==
    /\ CanStart(c)
    /\ IF ~HasUser(c)
       THEN Start(Rejected("join", c, "Authentication required to join a room."))
       ELSE IF roomId \notin Room
       THEN Start(Task("join", c, roomId, 0, 0, NoVideo, "done",
                       <<ErrorMsg(c, "Room not found")>>))
       ELSE Start(Task("join", c, roomId, 0, 0, NoVideo, "upsert", <<>>))
    /\ UNCHANGED <<storeVars, ioVars, clientVars>>

\* mutant: the upsert is a create that no unique index stops
JoinUpsert_Create(e) ==
    /\ e \in 1..Len(tasks)
    /\ tasks[e].kind = "join" /\ tasks[e].pc = "upsert"
    /\ RoomParticipant' = RoomParticipant \cup
           {[id |-> nextId, userId |-> SocketUser(tasks[e].socket), roomId |-> tasks[e].roomId]}
    /\ nextId' = nextId + 1
    /\ tasks' = [tasks EXCEPT ![e].pc = "join"]
    /\ UNCHANGED <<SyncState, Video, ioVars, clientVars>>

\* room:join, prisma.roomParticipant.upsert with update: {}
JoinUpsert(e) ==
    /\ e \in 1..Len(tasks)
    /\ tasks[e].kind = "join" /\ tasks[e].pc = "upsert"
    /\ LET t == tasks[e]
           userId == SocketUser(t.socket) IN
       IF FindParticipant(userId, t.roomId) = {}
       THEN /\ RoomParticipant' = RoomParticipant \cup
                  {[id |-> nextId, userId |-> userId, roomId |-> t.roomId]}
            /\ nextId' = nextId + 1
       ELSE UNCHANGED <<RoomParticipant, nextId>>
    /\ tasks' = [tasks EXCEPT ![e].pc = "join"]
    /\ UNCHANGED <<SyncState, Video, ioVars, clientVars>>

\* room:join after the upsert: socket.join, room:userJoined to the others, room:joined
\* to the joiner (a socket that disconnected meanwhile is in no room)
JoinDone(e) ==
    /\ e \in 1..Len(tasks)
    /\ tasks[e].pc = "join"
    /\ LET t == tasks[e]
           c == t.socket
           joined == IF connected[c] THEN [rooms EXCEPT ![c] = @ \cup {t.roomId}] ELSE rooms
           others == {d \in Sockets : t.roomId \in joined[d]} \ {c} IN
       /\ rooms' = joined
       /\ tasks' = [tasks EXCEPT ![e].pc = "done",
                       ![e].out = t.out \o <<Msg("room:userJoined", others,
                                                 [roomId |-> t.roomId, userId |-> SocketUser(c)]),
                                             Msg("room:joined", {c},
                                                 [roomId |-> t.roomId, userId |-> SocketUser(c)])>>]
    /\ UNCHANGED <<storeVars, connected, clientVars>>

\* socket.on('room:leave') up to the call of deleteMany: the identity check
RoomLeave(c, roomId) ==
    /\ CanStart(c)
    /\ IF ~HasUser(c)
       THEN Start(Rejected("leave", c, "Authentication required to leave a room."))
       ELSE Start(Task("leave", c, roomId, 0, 0, NoVideo, "deleteMany", <<>>))
    /\ UNCHANGED <<storeVars, ioVars, clientVars>>

\* room:leave, prisma.roomParticipant.deleteMany: the store runs it when it gets to it,
\* which can be after the socket has disconnected
LeaveDeleteMany(e) ==
    /\ e \in 1..Len(tasks)
    /\ tasks[e].kind = "leave" /\ tasks[e].pc = "deleteMany"
    /\ RoomParticipant' = RoomParticipant \
                            FindParticipant(SocketUser(tasks[e].socket), tasks[e].roomId)
    /\ tasks' = [tasks EXCEPT ![e].pc = "leave"]
    /\ UNCHANGED <<SyncState, Video, nextId, ioVars, clientVars>>

\* room:leave after deleteMany: socket.leave, room:userLeft to the others, room:left
LeaveDone(e) ==
    /\ e \in 1..Len(tasks)
    /\ tasks[e].pc = "leave"
    /\ LET t == tasks[e]
           c == t.socket
           left == [rooms EXCEPT ![c] = @ \ {t.roomId}]
           others == {d \in Sockets : t.roomId \in left[d]} \ {c} IN
       /\ rooms' = left
       /\ tasks' = [tasks EXCEPT ![e].pc = "done",
                       ![e].out = t.out \o <<Msg("room:userLeft", others,
                                                 [roomId |-> t.roomId, userId |-> SocketUser(c)]),
                                             Msg("room:left", {c},
                                                 [roomId |-> t.roomId, userId |-> NoUser])>>]
    /\ UNCHANGED <<storeVars, connected, clientVars>>

\* socket.on('disconnecting'): the handler starts over the rooms the socket is in;
\* socket.io then removes the socket from all its rooms
Disconnecting(c) ==
    /\ CanStart(c)
    /\ LET todo == IF HasUser(c) THEN rooms[c] ELSE {} IN
       Start([Task("disconnecting", c, NoRoom, 0, 0, NoVideo,
                   IF todo = {} THEN "done" ELSE "find", <<>>) EXCEPT !.todo = todo])
    /\ rooms' = [rooms EXCEPT ![c] = {}]
    /\ connected' = [connected EXCEPT ![c] = FALSE]
    /\ UNCHANGED <<storeVars, clientVars>>

\* disconnecting, loop body: prisma.roomParticipant.findFirst for the next room
SweepFind(e) ==
    /\ e \in 1..Len(tasks)
    /\ tasks[e].pc = "find"
    /\ \E roomId \in tasks[e].todo :
         LET t == tasks[e]
             ps == FindParticipant(SocketUser(t.socket), roomId)
             rest == t.todo \ {roomId} IN
         tasks' = [tasks EXCEPT
                     ![e].todo = rest,
                     ![e].roomId = roomId,
                     ![e].found = IF ps = {} THEN 0 ELSE (CHOOSE p \in ps : TRUE).id,
                     ![e].pc = IF ps # {} THEN "delete"
                               ELSE IF rest = {} THEN "done" ELSE "find"]
    /\ UNCHANGED <<storeVars, ioVars, clientVars>>

\* disconnecting, loop body: delete by id (throws into the catch when the row is
\* gone), then room:userLeft to the whole room
SweepDelete(e) ==
    /\ e \in 1..Len(tasks)
    /\ tasks[e].pc = "delete"
    /\ LET t == tasks[e]
           row == {p \in RoomParticipant : p.id = t.found}
           sent == IF row = {} THEN <<>>
                   ELSE <<Msg("room:userLeft", InRoom(t.roomId),
                              [roomId |-> t.roomId, userId |-> SocketUser(t.socket)])>> IN
       /\ RoomParticipant' = RoomParticipant \ row
       /\ tasks' = [tasks EXCEPT ![e].pc = IF t.todo = {} THEN "done" ELSE "find",
                                 ![e].out = t.out \o sent]
    /\ UNCHANGED <<SyncState, Video, nextId, ioVars, clientVars>>

\* ---------------------------------------------------------------- POST /rooms/:roomId/videos
\* ids of the Video rows the route creates (uuid: never used before)
NewVideoIds == <<"v3", "v4", "v5", "v6", "v7">>
Created == {e \in 1..Len(tasks) : tasks[e].kind = "addVideo" /\ tasks[e].videoId # NoVideo}

Reply(c, status) == Msg("reply", {c}, [status |-> status])

\* the request of client c with a url and a title, up to room.findUnique: 404 when
\* the room is missing
AddVideo(c, roomId) ==
    /\ Len(tasks) < MaxEvents
    /\ HasUser(c)
    /\ IF roomId \notin Room
       THEN Start(Task("addVideo", c, roomId, 0, 0, NoVideo, "done", <<Reply(c, 404)>>))
       ELSE Start(Task("addVideo", c, roomId, 0, 0, NoVideo, "participant", <<>>))
    /\ UNCHANGED <<storeVars, ioVars, clientVars>>

\* mutant: the route creates the video for any authenticated caller
AddVideoParticipant_Open(e) ==
    /\ e \in 1..Len(tasks)
    /\ tasks[e].kind = "addVideo" /\ tasks[e].pc = "participant"
    /\ tasks' = [tasks EXCEPT ![e].pc = "create"]
    /\ UNCHANGED <<storeVars, ioVars, clientVars>>

\* roomParticipant.findUnique: 403 when the caller is no participant of the room
AddVideoParticipant(e) ==
    /\ e \in 1..Len(tasks)
    /\ tasks[e].kind = "addVideo" /\ tasks[e].pc = "participant"
    /\ LET t == tasks[e] IN
       IF FindParticipant(SocketUser(t.socket), t.roomId) = {}
       THEN tasks' = [tasks EXCEPT ![e].pc = "done",
                                   ![e].out = t.out \o <<Reply(t.socket, 403)>>]
       ELSE tasks' = [tasks EXCEPT ![e].pc = "create"]
    /\ UNCHANGED <<storeVars, ioVars, clientVars>>

\* video.create
AddVideoCreate(e) ==
    /\ e \in 1..Len(tasks)
    /\ tasks[e].kind = "addVideo" /\ tasks[e].pc = "create"
    /\ LET id == NewVideoIds[Cardinality(Created) + 1] IN
       /\ Video' = Video \cup {[id |-> id, roomId |-> tasks[e].roomId]}
       /\ tasks' = [tasks EXCEPT ![e].pc = "findSync", ![e].videoId = id]
    /\ UNCHANGED <<SyncState, RoomParticipant, nextId, ioVars, clientVars>>

\* syncState.findUnique and the branch on its result; 201 when the room already has a
\* current video
AddVideoFindSync(e) ==
    /\ e \in 1..Len(tasks)
    /\ tasks[e].kind = "addVideo" /\ tasks[e].pc = "findSync"
    /\ LET t == tasks[e]
           existingSyncState == FindSyncState(t.roomId) IN
       IF existingSyncState = {}
       THEN tasks' = [tasks EXCEPT ![e].pc = "createSync"]
       ELSE IF \E x \in existingSyncState : x.currentVideoId = NoVideo
       THEN tasks' = [tasks EXCEPT ![e].pc = "updateSync"]
       ELSE tasks' = [tasks EXCEPT ![e].pc = "done",
                                   ![e].out = t.out \o <<Reply(t.socket, 201)>>]
    /\ UNCHANGED <<storeVars, ioVars, clientVars>>

\* syncState.create, then 201; the create throws on SyncState.roomId @unique when a
\* row has appeared since the findUnique, and on SyncState_currentVideoId_fkey when the
\* new Video has gone: the catch block replies 500
AddVideoCreateSync(e) ==
    /\ e \in 1..Len(tasks)
    /\ tasks[e].kind = "addVideo" /\ tasks[e].pc = "createSync"
    /\ LET t == tasks[e] IN
       IF FindSyncState(t.roomId) # {} \/ ~VideoExists(t.videoId)
       THEN /\ tasks' = [tasks EXCEPT ![e].pc = "done",
                                      ![e].out = t.out \o <<Reply(t.socket, 500)>>]
            /\ UNCHANGED SyncState
       ELSE /\ SyncState' = SyncState \cup
                   {[roomId |-> t.roomId, currentVideoId |-> t.videoId,
                     isPlaying |-> FALSE, progress |-> 0, lastEventTimestamp |-> 0]}
            /\ tasks' = [tasks EXCEPT ![e].pc = "done",
                                      ![e].out = t.out \o <<Reply(t.socket, 201)>>]
    /\ UNCHANGED <<RoomParticipant, Video, nextId, ioVars, clientVars>>

\* syncState.update of the pointer, whatever the row's pointer is by now, then 201
AddVideoUpdateSync(e) ==
    /\ e \in 1..Len(tasks)
    /\ tasks[e].kind = "addVideo" /\ tasks[e].pc = "updateSync"
    /\ LET t == tasks[e]
           old == FindSyncState(t.roomId) IN
       IF old = {} \/ ~VideoExists(t.videoId)
       THEN /\ tasks' = [tasks EXCEPT ![e].pc = "done",
                                      ![e].out = t.out \o <<Reply(t.socket, 500)>>]
            /\ UNCHANGED SyncState
       ELSE /\ SyncState' = (SyncState \ old) \cup
                   {[x EXCEPT !.currentVideoId = t.videoId] : x \in old}
            /\ tasks' = [tasks EXCEPT ![e].pc = "done",
                                      ![e].out = t.out \o <<Reply(t.socket, 201)>>]
    /\ UNCHANGED <<RoomParticipant, Video, nextId, ioVars, clientVars>>

\* ---------------------------------------------------------------- invitation route
\* POST /rooms/:roomId/participants behind the authenticate preHandler. The User
\* table holds u1 and u2; a request can name a user that does not exist.
User == {"u1", "u2"}
UserIds == User \cup {"u0"}

\* the request of client c to invite userIdToInvite, up to room.findUnique: 404 when
\* the room is missing
Invite(c, roomId, u) ==
    /\ Len(tasks) < MaxEvents
    /\ HasUser(c)
    /\ LET t == [Task("invite", c, roomId, 0, 0, NoVideo, "inviter", <<>>)
                    EXCEPT !.userIdToInvite = u] IN
       IF roomId \notin Room
       THEN Start([t EXCEPT !.pc = "done", !.out = <<Reply(c, 404)>>])
       ELSE Start(t)
    /\ UNCHANGED <<storeVars, ioVars, clientVars>>

\* roomParticipant.findUnique of the inviting user: 403 when it has no record
InviteInviter(e) ==
    /\ e \in 1..Len(tasks)
    /\ tasks[e].kind = "invite" /\ tasks[e].pc = "inviter"
    /\ LET t == tasks[e] IN
       IF FindParticipant(SocketUser(t.socket), t.roomId) = {}
       THEN tasks' = [tasks EXCEPT ![e].pc = "done",
                                   ![e].out = t.out \o <<Reply(t.socket, 403)>>]
       ELSE tasks' = [tasks EXCEPT ![e].pc = "invitee"]
    /\ UNCHANGED <<storeVars, ioVars, clientVars>>

\* user.findUnique of the user to invite: 404 when there is no such user
InviteInvitee(e) ==
    /\ e \in 1..Len(tasks)
    /\ tasks[e].kind = "invite" /\ tasks[e].pc = "invitee"
    /\ LET t == tasks[e] IN
       IF t.userIdToInvite \notin User
       THEN tasks' = [tasks EXCEPT ![e].pc = "done",
                                   ![e].out = t.out \o <<Reply(t.socket, 404)>>]
       ELSE tasks' = [tasks EXCEPT ![e].pc = "existing"]
    /\ UNCHANGED <<storeVars, ioVars, clientVars>>

\* mutant: the route does not look for a record of the user to invite
InviteExisting_Unchecked(e) ==
    /\ e \in 1..Len(tasks)
    /\ tasks[e].kind = "invite" /\ tasks[e].pc = "existing"
    /\ tasks' = [tasks EXCEPT ![e].pc = "create"]
    /\ UNCHANGED <<storeVars, ioVars, clientVars>>

\* roomParticipant.findUnique of the user to invite: 409 when it has a record
InviteExisting(e) ==
    /\ e \in 1..Len(tasks)
    /\ tasks[e].kind = "invite" /\ tasks[e].pc = "existing"
    /\ LET t == tasks[e] IN
       IF FindParticipant(t.userIdToInvite, t.roomId) # {}
       THEN tasks' = [tasks EXCEPT ![e].pc = "done",
                                   ![e].out = t.out \o <<Reply(t.socket, 409)>>]
       ELSE tasks' = [tasks EXCEPT ![e].pc = "create"]
    /\ UNCHANGED <<storeVars, ioVars, clientVars>>

\* roomParticipant.create, then 201; the create throws on @@unique([userId, roomId])
\* when a record has appeared since the findUnique: the catch block replies 500
InviteCreate(e) ==
    /\ e \in 1..Len(tasks)
    /\ tasks[e].kind = "invite" /\ tasks[e].pc = "create"
    /\ LET t == tasks[e] IN
       IF FindParticipant(t.userIdToInvite, t.roomId) # {}
       THEN /\ tasks' = [tasks EXCEPT ![e].pc = "done",
                                      ![e].out = t.out \o <<Reply(t.socket, 500)>>]
            /\ UNCHANGED <<RoomParticipant, nextId>>
       ELSE /\ RoomParticipant' = RoomParticipant \cup
                   {[id |-> nextId, userId |-> t.userIdToInvite, roomId |-> t.roomId]}
            /\ nextId' = nextId + 1
            /\ tasks' = [tasks EXCEPT ![e].pc = "done",
                                      ![e].out = t.out \o <<Reply(t.socket, 201)>>]
    /\ UNCHANGED <<SyncState, Video, ioVars, clientVars>>

\* Video rows deleted so far: v1, v2 and the created ones that are no longer there
Deleted == 2 + Cardinality(Created) - Cardinality(Video)

\* mutant: the Video row goes and the pointers to it stay
DeleteVideo_Dangling(v) ==
    /\ v \in Video
    /\ Deleted < MaxDeletes
    /\ Video' = Video \ {v}
    /\ UNCHANGED <<SyncState, RoomParticipant, nextId, ioVars, tasks, clientVars>>

\* a Video row is deleted in the store: ON DELETE SET NULL clears the pointers to it
DeleteVideo(v) ==
    /\ v \in Video
    /\ Deleted < MaxDeletes
    /\ Video' = Video \ {v}
    /\ SyncState' = {IF x.currentVideoId = v.id THEN [x EXCEPT !.currentVideoId = NoVideo]
                     ELSE x : x \in SyncState}
    /\ UNCHANGED <<RoomParticipant, nextId, ioVars, tasks, clientVars>>

\* ---------------------------------------------------------------- VideoPlayer
\* Time is counted in quarter seconds.
TicksPerSecond   == 4
UPDATE_THRESHOLD == 1 * TicksPerSecond
Positions        == 0..MaxPos

\* Math.abs
Abs(x) == IF x < 0 THEN -x ELSE x

\* mutant: every difference is applied
needsUpdate_AnyDifference(local, currentTime, isPlaying) == local # currentTime

\* needsUpdate of the currentTime effect, local being videoElement.currentTime
needsUpdate(local, currentTime, isPlaying) ==
    \/ Abs(local - currentTime) > UPDATE_THRESHOLD
    \/ ~isPlaying /\ local # currentTime

\* The video element after an assignment to currentTime or a user's scrub: a seeked
\* event will follow; a seek that is still running is aborted by the new one and
\* fires no seeked event of its own, a seek that has completed still fires it.
SeekStarted(seeking, origin) ==
    {Append(seeking, origin)} \cup
    (IF seeking = <<>> THEN {} ELSE {[seeking EXCEPT ![Len(seeking)] = origin]})

\* The video element after play() or pause(): play() on a paused element starts it
\* and a play event will follow, unless the browser refuses (the promise is rejected
\* and caught); pause() on a playing element pauses it and a pause event will follow.
MediaCall(play, origin) ==
    LET same == [paused |-> player.paused, media |-> player.media] IN
    IF play
    THEN IF player.paused
         THEN {same, [paused |-> FALSE,
                      media |-> Append(player.media, [type |-> "play", origin |-> origin])]}
         ELSE {same}
    ELSE IF player.paused THEN {same}
         ELSE {[paused |-> TRUE,
                media |-> Append(player.media, [type |-> "pause", origin |-> origin])]}

\* useEffect(..., [isPlaying, src]): play() or pause() when the isPlaying prop has
\* changed
PlayPauseEffect(isPlaying) ==
    IF isPlaying = player.isPlaying
    THEN {[paused |-> player.paused, media |-> player.media]}
    ELSE MediaCall(isPlaying, "effect")

\* a render with new props: the play/pause effect, then
\* useEffect(..., [currentTime, isPlaying])
CurrentTimeEffect(currentTime, isPlaying) ==
    /\ player.ops < MaxOps
    /\ <<currentTime, isPlaying>> # <<player.currentTime, player.isPlaying>>
    /\ LET set == /\ needsUpdate(player.pos, currentTime, isPlaying)
                  /\ ~player.isSeekingInternally IN
       \E seeking \in IF set THEN SeekStarted(player.seeking, "effect")
                      ELSE {player.seeking},
          element \in PlayPauseEffect(isPlaying) :
          player' = [player EXCEPT !.currentTime = currentTime,
                                   !.isPlaying = isPlaying,
                                   !.paused = element.paused,
                                   !.media = element.media,
                                   !.isSeekingInternally = IF set THEN TRUE ELSE @,
                                   !.pos = IF set THEN currentTime ELSE @,
                                   !.seeking = seeking,
                                   !.ops = @ + 1,
                                   !.last = IF set THEN "effect:set" ELSE "effect:skip"]
    /\ UNCHANGED <<storeVars, ioVars, tasks, page, screens>>

\* the video plays on: videoElement.currentTime advances
TimeUpdate ==
    /\ ~player.paused
    /\ player.pos < MaxPos
    /\ player' = [player EXCEPT !.pos = @ + 1, !.last = "timeupdate"]
    /\ UNCHANGED <<storeVars, ioVars, tasks, page, screens>>

\* the user moves the position with the browser controls
UserSeek(time) ==
    /\ player.ops < MaxOps
    /\ time # player.pos
    /\ \E seeking \in SeekStarted(player.seeking, "user") :
          player' = [player EXCEPT !.pos = time, !.seeking = seeking,
                                   !.ops = @ + 1, !.last = "user"]
    /\ UNCHANGED <<storeVars, ioVars, tasks, page, screens>>

\* the user starts or stops the video with the browser controls
UserPlayPause ==
    /\ player.ops < MaxOps
    /\ \E element \in MediaCall(player.paused, "user") :
          /\ element.paused # player.paused
          /\ player' = [player EXCEPT !.paused = element.paused,
                                      !.media = element.media,
                                      !.ops = @ + 1, !.last = "user"]
    /\ UNCHANGED <<storeVars, ioVars, tasks, page, screens>>

\* handlePlay: the video element fires play
handlePlay ==
    /\ player.media # <<>> /\ Head(player.media).type = "play"
    /\ player' = [player EXCEPT !.media = Tail(@),
                                !.onPlay = Append(@, Head(player.media).origin),
                                !.last = "play:onPlay"]
    /\ UNCHANGED <<storeVars, ioVars, tasks, page, screens>>

\* handlePause: the video element fires pause; videoRef.current.seeking holds while a
\* seek has not completed, and playback does not get to the end of the media
handlePause ==
    /\ player.media # <<>> /\ Head(player.media).type = "pause"
    /\ \E seeking \in IF player.seeking = <<>> THEN {FALSE} ELSE BOOLEAN :
          IF seeking
          THEN player' = [player EXCEPT !.media = Tail(@), !.last = "pause:skip"]
          ELSE player' = [player EXCEPT !.media = Tail(@),
                                        !.onPause = Append(@, Head(player.media).origin),
                                        !.last = "pause:onPause"]
    /\ UNCHANGED <<storeVars, ioVars, tasks, page, screens>>

\* mutant: the flag is cleared and onSeek is called all the same
handleSeeked_CallsOnSeek ==
    /\ player.seeking # <<>>
    /\ player' = [player EXCEPT !.seeking = Tail(@),
                                !.isSeekingInternally = FALSE,
                                !.onSeek = Append(@, player.pos),
                                !.last = "seeked:onSeek"]
    /\ UNCHANGED <<storeVars, ioVars, tasks, page, screens>>

\* handleSeeked: the video element fires seeked
handleSeeked ==
    /\ player.seeking # <<>>
    /\ IF player.isSeekingInternally
       THEN player' = [player EXCEPT !.seeking = Tail(@),
                                     !.isSeekingInternally = FALSE,
                                     !.last = "seeked:reset"]
       ELSE player' = [player EXCEPT !.seeking = Tail(@),
                                     !.onSeek = Append(@, player.pos),
                                     !.last = "seeked:onSeek"]
    /\ UNCHANGED <<storeVars, ioVars, tasks, page, screens>>

\* handleLoadedData: a media resource has loaded; the element stands at its start, or
\* at the position assigned to it while it was loading
handleLoadedData ==
    /\ player.ops < MaxOps
    /\ \E local \in {0, player.pos} :
       LET set == /\ local # player.currentTime
                  /\ \/ 2 * Abs(local - player.currentTime) > TicksPerSecond
                     \/ player.currentTime = 0 IN
       \E seeking \in IF set THEN SeekStarted(player.seeking, "loaded")
                      ELSE {player.seeking} :
          player' = [player EXCEPT !.isSeekingInternally = IF set THEN TRUE ELSE @,
                                   !.pos = IF set THEN player.currentTime ELSE local,
                                   !.seeking = seeking,
                                   !.ops = @ + 1,
                                   !.last = IF set THEN "loaded:set" ELSE "loaded:skip"]
    /\ UNCHANGED <<storeVars, ioVars, tasks, page, screens>>

\* the component after its first render: no sync state yet, nothing loaded, the
\* element paused
InitPlayer ==
    player = [currentTime |-> 0, isPlaying |-> FALSE, pos |-> 0,
              isSeekingInternally |-> FALSE, seeking |-> <<>>, onSeek |-> <<>>,
              paused |-> TRUE, media |-> <<>>, onPlay |-> <<>>, onPause |-> <<>>,
              ops |-> 0, last |-> "mount"]

\* ---------------------------------------------------------------- room page
\* The page of one client: the socket store (socket.connected, isConnected), the
\* listeners effect, currentSyncState (0 is null, n the n-th state it was given) and
\* the timers of handleSeek. page.log lists, in order, what the socket did (connect,
\* disconnect), what was emitted on it, and the calls of handleSeek.
PageTimes == {1, 2}
Entry(type, time) == [type |-> type, time |-> time]
Emit(type) == Entry(type, 0)

\* mutant: handleSeek sets a new timer and leaves the pending one
Debounce_NoClear(timers, time) == Append(timers, time)

\* handleSeek: clearTimeout(seekTimeoutRef.current), then setTimeout(..., 300)
Debounce(timers, time) == <<time>>

\* the dependencies of the listeners effect that change
EffectDeps == <<page.isConnected, page.currentSyncState>>

\* The socket connects. The store's listener sets isConnected; handleConnect, when
\* the listeners effect has it registered, emits room:join and video:requestSync.
PageConnect ==
    /\ ~page.connected
    /\ Len(page.log) < MaxLog
    /\ page' = [page EXCEPT
                   !.connected = TRUE,
                   !.isConnected = TRUE,
                   !.log = @ \o <<Emit("connect")>> \o
                           (IF page.listening
                            THEN <<Emit("room:join"), Emit("video:requestSync")>>
                            ELSE <<>>)]
    /\ UNCHANGED <<storeVars, ioVars, tasks, player, screens>>

\* the connection is lost: the store's listener clears isConnected
PageDisconnect ==
    /\ page.connected
    /\ Len(page.log) < MaxLog
    /\ page' = [page EXCEPT !.connected = FALSE,
                            !.isConnected = FALSE,
                            !.log = Append(@, Emit("disconnect"))]
    /\ UNCHANGED <<storeVars, ioVars, tasks, player, screens>>

\* The listeners effect after a render in which isConnected or currentSyncState has
\* changed: the cleanup removes the listeners; connected, the body emits room:join,
\* emits video:requestSync if there is no sync state, and registers the listeners.
ListenersEffect ==
    /\ page.deps # EffectDeps
    /\ page' = [page EXCEPT
                   !.deps = EffectDeps,
                   !.listening = page.isConnected,
                   !.log = IF ~page.isConnected THEN @
                           ELSE @ \o <<Emit("room:join")>> \o
                                (IF page.currentSyncState = 0
                                 THEN <<Emit("video:requestSync")>> ELSE <<>>)]
    /\ UNCHANGED <<storeVars, ioVars, tasks, player, screens>>

\* fetchRoomData resolves: setCurrentSyncState when the room has a sync state. The
\* else branch reads socket and isConnected of the first render, where there is no
\* connection, and emits nothing.
FetchRoomData(syncState) ==
    /\ ~page.fetched
    /\ page' = [page EXCEPT !.fetched = TRUE,
                            !.currentSyncState = IF syncState THEN @ + 1 ELSE @]
    /\ UNCHANGED <<storeVars, ioVars, tasks, player, screens>>

\* handleSyncUpdate: a sync:update of this room arrives
PageSyncUpdate ==
    /\ page.connected /\ page.listening
    /\ Len(page.log) < MaxLog
    /\ page' = [page EXCEPT !.currentSyncState = @ + 1,
                            !.log = Append(@, Emit("sync:update"))]
    /\ UNCHANGED <<storeVars, ioVars, tasks, player, screens>>

\* handleSeek(time), called by the player's onSeek
handleSeek(time) ==
    /\ Len(page.log) < MaxLog
    /\ page' = [page EXCEPT !.timers = Debounce(@, time),
                            !.log = Append(@, Entry("handleSeek", time))]
    /\ UNCHANGED <<storeVars, ioVars, tasks, player, screens>>

\* 300 ms after its setTimeout a timer runs: the store's emit sends video:seek on a
\* connected socket and only warns otherwise
SeekTimeout ==
    /\ page.timers # <<>>
    /\ page' = [page EXCEPT
                   !.timers = Tail(@),
                   !.log = Append(@, Entry(IF page.connected THEN "video:seek"
                                           ELSE "warn", Head(page.timers)))]
    /\ UNCHANGED <<storeVars, ioVars, tasks, player, screens>>

\* the page after its first render: the socket is being connected, the listeners
\* effect has returned at its first line, fetchRoomData is on its way
InitPage ==
    page = [connected |-> FALSE, isConnected |-> FALSE, listening |-> FALSE,
            deps |-> <<FALSE, 0>>, currentSyncState |-> 0, fetched |-> FALSE,
            timers |-> <<>>, log |-> <<>>]

\* ---------------------------------------------------------------- sync state held
\* What the page of each connection holds as currentSyncState, and the sync:update
\* messages on their way to it.
SyncRoom == "r1"

\* emitSyncUpdate, the messages on their way to the pages of their recipients
SendSyncUpdate(e) ==
    /\ e \in 1..Len(tasks)
    /\ tasks[e].pc = "emit"
    /\ tasks' = [tasks EXCEPT ![e].pc = "done", ![e].out = tasks[e].out \o Broadcast(e)]
    /\ screens' = [c \in Sockets |->
                     [screens[c] EXCEPT !.inbox =
                         @ \o SelectSeq([k \in 1..Len(Broadcast(e)) |->
                                            Broadcast(e)[k].payload],
                                        LAMBDA x : c \in Broadcast(e)[1].to)]]
    /\ UNCHANGED <<storeVars, ioVars, player, page>>

\* handleSyncUpdate of the page of connection c: setCurrentSyncState when the
\* payload is of the page's room
handleSyncUpdate(c) ==
    /\ screens[c].inbox # <<>>
    /\ LET data == Head(screens[c].inbox) IN
       screens' = [screens EXCEPT
                      ![c].inbox = Tail(@),
                      ![c].currentSyncState = IF data.roomId = SyncRoom THEN data ELSE @]
    /\ UNCHANGED <<storeVars, ioVars, tasks, player, page>>

\* every page has received the default state that video:requestSync answers for a
\* room without SyncState
InitScreens ==
    screens = [c \in Sockets |->
                 [currentSyncState |-> DefaultPayload(SyncRoom), inbox |-> <<>>]]

\* ---------------------------------------------------------------- specification
\* The store as the HTTP routes leave it: u2 created r1 and r2 (POST /rooms makes the
\* creator the first participant), v1 was added to r1 and v2 to r2.
InitStore ==
    /\ SyncState = {}
    /\ Video = {[id |-> "v1", roomId |-> "r1"], [id |-> "v2", roomId |-> "r2"]}
    /\ tasks = <<>>
    /\ InitPlayer
    /\ InitPage
    /\ InitScreens

\* Every socket has just connected and is in no room.
InitRoom ==
    /\ InitStore
    /\ RoomParticipant = {[id |-> 1, userId |-> "u2", roomId |-> "r1"],
                          [id |-> 2, userId |-> "u2", roomId |-> "r2"]}
    /\ nextId = 3
    /\ rooms = [c \in Sockets |-> {}]
    /\ connected = [c \in Sockets |-> TRUE]

\* c1 and c2 have joined r1, c3 is connected without identity, c4 is not connected;
\* no room has a SyncState yet.
Init ==
    /\ InitStore
    /\ RoomParticipant = {[id |-> 1, userId |-> "u2", roomId |-> "r1"],
                          [id |-> 2, userId |-> "u2", roomId |-> "r2"],
                          [id |-> 3, userId |-> "u1", roomId |-> "r1"]}
    /\ nextId = 4
    /\ rooms = [c \in Sockets |-> IF c \in {"c1", "c2"} THEN {"r1"} ELSE {}]
    /\ connected = [c \in Sockets |-> c # "c4"]

Next ==
    \/ \E c \in Sockets, r \in RoomIds, ts \in Timestamps : VideoPlay(c, r, ts)
    \/ \E c \in Sockets, r \in RoomIds, ts \in Timestamps : VideoPause(c, r, ts)
    \/ \E c \in Sockets, r \in RoomIds, tm \in Times, ts \in Timestamps : VideoSeek(c, r, tm, ts)
    \/ \E c \in Sockets, r \in RoomIds, v \in VideoIds, ts \in Timestamps : VideoChange(c, r, v, ts)
    \/ \E c \in Sockets, r \in RoomIds : VideoRequestSync(c, r)
    \/ \E e \in 1..MaxEvents : Reread(e)
    \/ \E e \in 1..MaxEvents : ChangeUpsert(e)
    \/ \E e \in 1..MaxEvents : EmitSyncUpdate(e)

\* the video sync handlers over a fixed membership
Spec == Init /\ [][Next]_vars

\* the video sync handlers over a store whose calls can fail
NextFail ==
    \/ Next
    \/ \E kind \in SyncKinds : \E c \in Sockets : StoreThrowsFirst(kind, c)
    \/ \E e \in 1..MaxEvents : StoreThrows(e)

SpecFail == Init /\ [][NextFail]_vars

\* the handlers and the route that write currentVideoId, and the deletion of videos
NextVideo ==
    \/ \E c \in Sockets, r \in RoomIds : VideoPlay(c, r, 1)
    \/ \E c \in Sockets, r \in RoomIds : VideoPause(c, r, 1)
    \/ \E c \in Sockets, r \in RoomIds : VideoSeek(c, r, 1, 1)
    \/ \E c \in Sockets, r \in RoomIds, v \in VideoIds : VideoChange(c, r, v, 1)
    \/ \E e \in 1..MaxEvents : Reread(e)
    \/ \E e \in 1..MaxEvents : ChangeUpsert(e)
    \/ \E e \in 1..MaxEvents : EmitSyncUpdate(e)
    \/ \E c \in {x \in Sockets : connected[x]}, r \in Room \cup RoomIds : AddVideo(c, r)
    \/ \E e \in 1..MaxEvents : AddVideoParticipant(e)
    \/ \E e \in 1..MaxEvents : AddVideoCreate(e)
    \/ \E e \in 1..MaxEvents : AddVideoFindSync(e)
    \/ \E e \in 1..MaxEvents : AddVideoCreateSync(e)
    \/ \E e \in 1..MaxEvents : AddVideoUpdateSync(e)
    \/ \E v \in Video : DeleteVideo(v)

SpecVideo == Init /\ [][NextVideo]_vars

\* one VideoPlayer, its props set by the page and its element driven by the browser
NextPlayer ==
    \/ \E currentTime \in Positions, isPlaying \in BOOLEAN :
          CurrentTimeEffect(currentTime, isPlaying)
    \/ TimeUpdate
    \/ \E time \in Positions : UserSeek(time)
    \/ handleSeeked
    \/ handleLoadedData
    \/ UserPlayPause
    \/ handlePlay
    \/ handlePause

SpecPlayer == Init /\ [][NextPlayer]_vars

\* the control events of the two members of r1, each emitted by handlePlay,
\* handlePause, handleSeek or handleVideoChange of a page, with the sync:update
\* messages delivered to the pages
NextSync ==
    \/ \E c \in {"c1", "c2"}, ts \in Timestamps : VideoPlay(c, SyncRoom, ts)
    \/ \E c \in {"c1", "c2"}, ts \in Timestamps : VideoPause(c, SyncRoom, ts)
    \/ \E c \in {"c1", "c2"}, tm \in Times, ts \in Timestamps :
          VideoSeek(c, SyncRoom, tm, ts)
    \/ \E c \in {"c1", "c2"}, ts \in Timestamps : VideoChange(c, SyncRoom, "v1", ts)
    \/ \E e \in 1..MaxEvents : Reread(e)
    \/ \E e \in 1..MaxEvents : ChangeUpsert(e)
    \/ \E e \in 1..MaxEvents : SendSyncUpdate(e)
    \/ \E c \in Sockets : handleSyncUpdate(c)

SpecSync == Init /\ [][NextSync]_vars

NextPage ==
    \/ PageConnect
    \/ PageDisconnect
    \/ ListenersEffect
    \/ \E syncState \in BOOLEAN : FetchRoomData(syncState)
    \/ PageSyncUpdate
    \/ \E time \in PageTimes : handleSeek(time)
    \/ SeekTimeout

SpecPage == Init /\ [][NextPage]_vars

NextRoom ==
    \/ \E c \in Sockets, r \in RoomIds : RoomJoin(c, r)
    \/ \E e \in 1..MaxEvents : JoinUpsert(e)
    \/ \E e \in 1..MaxEvents : JoinDone(e)
    \/ \E c \in Sockets, r \in RoomIds : RoomLeave(c, r)
    \/ \E e \in 1..MaxEvents : LeaveDeleteMany(e)
    \/ \E e \in 1..MaxEvents : LeaveDone(e)
    \/ \E c \in Sockets : Disconnecting(c)
    \/ \E e \in 1..MaxEvents : SweepFind(e)
    \/ \E e \in 1..MaxEvents : SweepDelete(e)

\* the room handlers from fresh connections
SpecRoom == InitRoom /\ [][NextRoom]_vars

\* the room handlers from a room with two members
SpecMember == Init /\ [][NextRoom]_vars

\* the invitation route next to room:leave, which removes records
NextInvite ==
    \/ \E c \in {"c1", "c2"}, r \in Room \cup RoomIds, u \in UserIds : Invite(c, r, u)
    \/ \E e \in 1..MaxEvents : InviteInviter(e)
    \/ \E e \in 1..MaxEvents : InviteInvitee(e)
    \/ \E e \in 1..MaxEvents : InviteExisting(e)
    \/ \E e \in 1..MaxEvents : InviteCreate(e)
    \/ \E c \in {"c1", "c2"}, r \in Room : RoomLeave(c, r)
    \/ \E e \in 1..MaxEvents : LeaveDeleteMany(e)
    \/ \E e \in 1..MaxEvents : LeaveDone(e)

SpecInvite == Init /\ [][NextInvite]_vars

\* ---------------------------------------------------------------- chat relay
\* a payload field as the handler sees it: its typeof and, for a string, its text
Str(text) == [typeof |-> "string", value |-> text]
Undefined == [typeof |-> "undefined", value |-> ""]
ChatRoomIds == {Str("r1"), Str("r0"), Str(""), Str(" "), Undefined}
ChatMessages == {Str("hi"), Str(" hi "), Str(""), Str(" "), Undefined}

\* String.prototype.trim
RECURSIVE TrimStart(_)
TrimStart(text) ==
    IF text # "" /\ Head(text) = " " THEN TrimStart(Tail(text)) ELSE text

RECURSIVE TrimEnd(_)
TrimEnd(text) ==
    IF text # "" /\ SubSeq(text, Len(text), Len(text)) = " "
    THEN TrimEnd(SubSeq(text, 1, Len(text) - 1)) ELSE text

Trim(text) == TrimEnd(TrimStart(text))

\* !x || typeof x !== 'string' || x.trim() === ''
Blank(x) == x.typeof # "string" \/ x.value = "" \/ Trim(x.value) = ""

CanChat(c) == Len(tasks) < MaxChat /\ connected[c]

\* mutant: an empty message is reported to the sender
ChatMessage_ReportsEmpty(c, roomId, message) ==
    /\ CanChat(c)
    /\ LET t == [Task("chat", c, roomId.value, 0, 0, NoVideo, "done", <<>>)
                   EXCEPT !.payload = [roomId |-> roomId, message |-> message]] IN
       Start([t EXCEPT !.out =
                IF ~HasUser(c)
                THEN <<ErrorMsg(c, "Authentication required to send messages.")>>
                ELSE IF Blank(roomId) THEN <<ErrorMsg(c, "Invalid room ID.")>>
                ELSE IF Blank(message) THEN <<ErrorMsg(c, "Message cannot be empty.")>>
                ELSE <<Msg("chat:newMessage", InRoom(roomId.value),
                           [message |-> Trim(message.value), userId |-> SocketUser(c),
                            roomId |-> roomId.value])>>])
    /\ UNCHANGED <<storeVars, ioVars, clientVars>>

\* socket.on('chat:message'): the handler is synchronous and touches no table
ChatMessage(c, roomId, message) ==
    /\ CanChat(c)
    /\ LET t == [Task("chat", c, roomId.value, 0, 0, NoVideo, "done", <<>>)
                   EXCEPT !.payload = [roomId |-> roomId, message |-> message]] IN
       Start([t EXCEPT !.out =
                IF ~HasUser(c)
                THEN <<ErrorMsg(c, "Authentication required to send messages.")>>
                ELSE IF Blank(roomId) THEN <<ErrorMsg(c, "Invalid room ID.")>>
                ELSE IF Blank(message) THEN <<>>
                ELSE <<Msg("chat:newMessage", InRoom(roomId.value),
                           [message |-> Trim(message.value), userId |-> SocketUser(c),
                            roomId |-> roomId.value])>>])
    /\ UNCHANGED <<storeVars, ioVars, clientVars>>

NextChat ==
    \E c \in Sockets, roomId \in ChatRoomIds, message \in ChatMessages :
        ChatMessage(c, roomId, message)

\* the chat relay over the fixed membership of Init
SpecChat == Init /\ [][NextChat]_vars

\* joining a room, controlling it and asking for its state, from fresh connections
NextAccess ==
    \/ \E c \in Sockets, r \in RoomIds : RoomJoin(c, r)
    \/ \E e \in 1..MaxEvents : JoinUpsert(e)
    \/ \E e \in 1..MaxEvents : JoinDone(e)
    \/ \E c \in Sockets, r \in RoomIds : VideoPlay(c, r, 1)
    \/ \E c \in Sockets, r \in RoomIds : VideoRequestSync(c, r)
    \/ \E e \in 1..MaxEvents : EmitSyncUpdate(e)

SpecAccess == InitRoom /\ [][NextAccess]_vars

\* a step of the running handler e: each await resumes once the store has answered
HandlerStep(e) ==
    \/ AddVideoParticipant(e)
    \/ AddVideoCreate(e)
    \/ AddVideoFindSync(e)
    \/ AddVideoCreateSync(e)
    \/ AddVideoUpdateSync(e)
    \/ ChangeUpsert(e)
    \/ EmitSyncUpdate(e)

\* the two writers of currentVideoId in room r1, and video:play, which creates the
\* SyncState without a video
NextSelect ==
    \/ \E c \in {"c1", "c2"} : AddVideo(c, "r1")
    \/ \E c \in {"c1", "c2"} : VideoChange(c, "r1", "v1", 1)
    \/ \E c \in {"c1", "c2"} : VideoPlay(c, "r1", 1)
    \/ \E e \in 1..MaxEvents : HandlerStep(e)

\* every handler that has started runs to its end
SpecSelect ==
    Init /\ [][NextSelect]_vars /\ \A e \in 1..MaxEvents : WF_vars(HandlerStep(e))

\* ---------------------------------------------------------------- properties
Events      == 1..Len(tasks)
Done(e)     == tasks[e].pc = "done"
Anonymous(c) == SocketUser(c) = NoUser
PlayPauseSeek == {"play", "pause", "seek"}
\* the step starts a handler: the task it appends
Started == Len(tasks') = Len(tasks) + 1
NewTask == tasks'[Len(tasks')]
\* the messages of a given type a handler emitted
Emitted(e, type) == {k \in 1..Len(tasks[e].out) : tasks[e].out[k].type = type}
\* the value a play, pause or seek writes to its own field
WroteOwnField(t, s) ==
    CASE t.kind = "play"  -> s.isPlaying = TRUE
      [] t.kind = "pause" -> s.isPlaying = FALSE
      [] t.kind = "seek"  -> s.progress = t.time

\* C1: of two play/pause/seek events of a room with timestamps t1 < t2 (t2 the
\* newest write to the room, and the room's row created by a play no later than
\* either), once every handler has completed the stored row has
\* lastEventTimestamp = t2 and the field of the t2 event holds its value.
C1_LastWriterWins ==
    \A i \in Events, j \in Events :
        ( /\ i # j
          /\ \A e \in Events : Done(e)
          /\ tasks[i].kind \in PlayPauseSeek /\ tasks[j].kind \in PlayPauseSeek
          /\ ~Anonymous(tasks[i].socket) /\ ~Anonymous(tasks[j].socket)
          /\ tasks[i].roomId = tasks[j].roomId
          /\ tasks[i].timestamp < tasks[j].timestamp
          /\ \E f \in Events :
                /\ f <= i /\ f <= j
                /\ tasks[f].kind = "play" /\ ~Anonymous(tasks[f].socket)
                /\ tasks[f].roomId = tasks[j].roomId /\ tasks[f].roomId \in Room
          /\ \A k \in Events \ {i, j} :
                \/ Anonymous(tasks[k].socket)
                \/ tasks[k].roomId # tasks[j].roomId
                \/ tasks[k].kind = "requestSync"
                \/ tasks[k].kind \in PlayPauseSeek /\ tasks[k].timestamp < tasks[j].timestamp )
        => \A s \in FindSyncState(tasks[j].roomId) :
              /\ s.lastEventTimestamp = tasks[j].timestamp
              /\ WroteOwnField(tasks[j], s)

\* C2: a play, pause or seek whose timestamp is smaller than the stored
\* lastEventTimestamp changes no SyncState row, emits nothing and is finished.
C2_StaleEventDropped ==
    [][ ( /\ Started
          /\ NewTask.kind \in PlayPauseSeek
          /\ ~Anonymous(NewTask.socket)
          /\ \E s \in FindSyncState(NewTask.roomId) : NewTask.timestamp < s.lastEventTimestamp )
        => ( /\ SyncState' = SyncState
             /\ NewTask.pc = "done"
             /\ NewTask.out = <<>> ) ]_vars

\* C3: the write of a video:change whose video belongs to the room sets the row's
\* video and timestamp whatever timestamp the row held, and the handler never
\* finishes without one sync:update broadcast to the room.
C3_ChangeWrites ==
    \A e \in Events :
        (tasks[e].pc = "upsert" /\ tasks'[e].pc = "emit" /\ tasks[e].kind = "change")
        => \E s \in SyncState' :
              /\ s.roomId = tasks[e].roomId
              /\ s.currentVideoId = tasks[e].videoId
              /\ s.lastEventTimestamp = tasks[e].timestamp
C3_ChangeBroadcasts ==
    \A e \in Events :
        ( /\ tasks[e].kind = "change" /\ ~Anonymous(tasks[e].socket)
          /\ FindVideo(tasks[e].videoId, tasks[e].roomId) # {} )
        => /\ tasks[e].pc \in {"upsert", "emit", "done"}
           /\ tasks[e].pc \in {"emit", "done"} => FindSyncState(tasks[e].roomId) # {}
           /\ Done(e) => /\ Len(tasks[e].out) = 1
                         /\ tasks[e].out[1].type = "sync:update"
                         /\ tasks[e].out[1].payload.roomId = tasks[e].roomId
C3_ChangeVideoAuthority == []C3_ChangeBroadcasts /\ [][C3_ChangeWrites]_vars

\* a video:change with a smaller timestamp than an earlier play of the room has
\* written and broadcast
C3_Witness ==
    \E e \in Events, k \in Events :
        /\ k < e /\ tasks[k].kind = "play" /\ tasks[e].kind = "change"
        /\ tasks[k].roomId = tasks[e].roomId
        /\ tasks[e].timestamp < tasks[k].timestamp
        /\ Done(e) /\ Emitted(e, "sync:update") # {}

\* C4: a video:change naming a video that does not exist or belongs to another
\* room ends at once with one error to the sender; the SyncState table is unchanged
\* and nothing is broadcast.
C4_VideoNotFound ==
    [][ ( /\ Started
          /\ NewTask.kind = "change"
          /\ ~Anonymous(NewTask.socket)
          /\ ~\E v \in Video : v.id = NewTask.videoId /\ v.roomId = NewTask.roomId )
        => ( /\ SyncState' = SyncState
             /\ NewTask.pc = "done"
             /\ Len(NewTask.out) = 1
             /\ NewTask.out[1].type = "error"
             /\ NewTask.out[1].to = {NewTask.socket} ) ]_vars

\* a video:change for r1 naming the video of r2 was rejected while r1 had no SyncState
C4_Witness ==
    \E e \in Events :
        /\ tasks[e].kind = "change" /\ tasks[e].roomId = "r1" /\ tasks[e].videoId = "v2"
        /\ Done(e) /\ Emitted(e, "error") # {}
        /\ FindSyncState("r1") = {}

\* C5: a video:requestSync of an identified socket leaves every table unchanged and
\* emits exactly one sync:update, to the requester only: the stored row, or
\* currentVideoId = null, isPlaying = false, progress = 0 when the room has none.
C5_RequestSyncReadOnly ==
    [][ ( /\ Started
          /\ NewTask.kind = "requestSync"
          /\ ~Anonymous(NewTask.socket) )
        => ( /\ UNCHANGED <<SyncState, RoomParticipant, Video>>
             /\ NewTask.pc = "done"
             /\ Len(NewTask.out) = 1
             /\ NewTask.out[1].type = "sync:update"
             /\ NewTask.out[1].to = {NewTask.socket}
             /\ LET p == NewTask.out[1].payload
                    cur == {s \in SyncState : s.roomId = NewTask.roomId} IN
                IF cur = {}
                THEN p.currentVideoId = NoVideo /\ p.isPlaying = FALSE /\ p.progress = 0
                ELSE \E s \in cur :
                        /\ p.currentVideoId = s.currentVideoId
                        /\ p.isPlaying = s.isPlaying
                        /\ p.progress = s.progress
                        /\ p.lastEventTimestamp = s.lastEventTimestamp ) ]_vars

\* a video:requestSync was answered with the default state and another with a stored row
C5_Witness ==
    /\ \E e \in Events :
          /\ tasks[e].kind = "requestSync" /\ Emitted(e, "sync:update") # {}
          /\ tasks[e].out[1].payload.lastEventTimestamp = NoTs
    /\ \E e \in Events :
          /\ tasks[e].kind = "requestSync" /\ Emitted(e, "sync:update") # {}
          /\ tasks[e].out[1].payload.lastEventTimestamp # NoTs
\* C6: a room:leave always ends with the socket out of the room, and it notifies
\* the other members with room:userLeft only when the socket was in the room, that is
\* once per Member-to-non-member transition.
C6_IdempotentLeave ==
    [][ \A e \in Events :
          (tasks[e].pc = "leave" /\ tasks'[e].pc = "done")
          => /\ tasks[e].roomId \notin rooms'[tasks[e].socket]
             /\ (\E k \in 1..Len(tasks'[e].out) :
                     /\ tasks'[e].out[k].type = "room:userLeft"
                     /\ tasks'[e].out[k].to # {})
                => tasks[e].roomId \in rooms[tasks[e].socket] ]_vars

\* C7: a room:join of a socket without identity ends at once with the error
\* 'Authentication required to join a room.' to that socket, and changes neither the
\* rooms of any socket nor the RoomParticipant table; every socket that is in a room
\* has an identity.
C7_JoinRejected ==
    ( /\ Started
      /\ NewTask.kind = "join"
      /\ Anonymous(NewTask.socket) )
    => ( /\ NewTask.pc = "done"
         /\ Len(NewTask.out) = 1
         /\ NewTask.out[1].type = "error"
         /\ NewTask.out[1].to = {NewTask.socket}
         /\ NewTask.out[1].payload.message = "Authentication required to join a room."
         /\ UNCHANGED <<rooms, RoomParticipant>> )
C7_MembersHaveIdentity ==
    /\ \A c \in Sockets : rooms[c] # {} => ~Anonymous(c)
    /\ \A e \in Events :
          (tasks[e].kind = "join" /\ Anonymous(tasks[e].socket)) => Done(e)
    /\ \A p \in RoomParticipant : p.userId # NoUser
C7_JoinRequiresAuth == []C7_MembersHaveIdentity /\ [][C7_JoinRejected]_vars

\* a join without identity was rejected while another socket is in the room
C7_Witness ==
    /\ \E e \in Events :
          /\ tasks[e].kind = "join" /\ Anonymous(tasks[e].socket)
          /\ Emitted(e, "error") # {}
    /\ \E c \in Sockets : "r1" \in rooms[c]

\* C8: a play, pause, seek, change or requestSync of a socket without identity ends
\* at once with one error to that socket only, and the SyncState table is unchanged.
C8_AnonymousControl ==
    [][ ( /\ Started
          /\ NewTask.kind \in PlayPauseSeek \cup {"change", "requestSync"}
          /\ Anonymous(NewTask.socket) )
        => ( /\ SyncState' = SyncState
             /\ NewTask.pc = "done"
             /\ Len(NewTask.out) = 1
             /\ NewTask.out[1].type = "error"
             /\ NewTask.out[1].to = {NewTask.socket} ) ]_vars

\* every kind of control event of an anonymous socket was rejected next to a stored row
C8_Witness ==
    /\ SyncState # {}
    /\ \E e \in Events :
          /\ Anonymous(tasks[e].socket) /\ tasks[e].kind = "change"
          /\ Emitted(e, "error") # {}
    /\ \E e \in Events :
          /\ Anonymous(tasks[e].socket) /\ tasks[e].kind = "seek"
          /\ Emitted(e, "error") # {}

\* C9: the write of a video:change {videoId: V, timestamp: t} leaves the room's row
\* equal to {V, isPlaying = false, progress = 0, lastEventTimestamp = t}, and the
\* handler's one sync:update goes to every socket in the room, the sender included.
C9_ChangeWritesRow ==
    \A e \in Events :
        (tasks[e].kind = "change" /\ tasks[e].pc = "upsert" /\ tasks'[e].pc = "emit")
        => /\ {s \in SyncState' : s.roomId = tasks[e].roomId}
                = {[roomId |-> tasks[e].roomId, currentVideoId |-> tasks[e].videoId,
                    isPlaying |-> FALSE, progress |-> 0,
                    lastEventTimestamp |-> tasks[e].timestamp]}
           /\ {s \in SyncState' : s.roomId # tasks[e].roomId}
                = {s \in SyncState : s.roomId # tasks[e].roomId}
C9_ChangeDelivered ==
    \A e \in Events :
        (tasks[e].kind = "change" /\ Done(e) /\ Emitted(e, "error") = {})
        => /\ Len(tasks[e].out) = 1
           /\ tasks[e].out[1].type = "sync:update"
           /\ tasks[e].out[1].to = {c \in Sockets : tasks[e].roomId \in rooms[c]}
           /\ tasks[e].roomId \in rooms[tasks[e].socket]
                 => tasks[e].socket \in tasks[e].out[1].to
C9_ChangeVideoEffect == []C9_ChangeDelivered /\ [][C9_ChangeWritesRow]_vars

\* the first event of a behaviour, a video:change of c1, created the row; a later
\* one replaced a row that a seek had moved
C9_Witness ==
    /\ Len(tasks) = 3
    /\ tasks[1].kind = "change" /\ tasks[1].socket = "c1" /\ Done(1)
    /\ tasks[1].out[1].to = {"c1", "c2"}
    /\ tasks[2].kind = "seek" /\ tasks[2].roomId = "r1"
    /\ tasks[3].kind = "change" /\ Done(3) /\ Emitted(3, "sync:update") # {}

\* C10: a play, pause or seek that writes (a play always, a pause or seek when the
\* room has a row) sets lastEventTimestamp and its own field only: play isPlaying =
\* true, pause isPlaying = false, seek progress = time; currentVideoId is kept, play
\* and pause keep progress, seek keeps isPlaying; the rows of other rooms are kept.
C10_OwnFieldsOnly ==
    [][ ( /\ Started
          /\ NewTask.kind \in PlayPauseSeek
          /\ ~Anonymous(NewTask.socket)
          /\ NewTask.out = <<>> )
        => LET t == NewTask
               old == {s \in SyncState : s.roomId = t.roomId}
               new == {s \in SyncState' : s.roomId = t.roomId} IN
           /\ {s \in SyncState' : s.roomId # t.roomId} = {s \in SyncState : s.roomId # t.roomId}
           /\ IF old = {}
              THEN IF t.kind = "play"
                   THEN new = {[roomId |-> t.roomId, currentVideoId |-> NoVideo,
                                isPlaying |-> TRUE, progress |-> 0,
                                lastEventTimestamp |-> t.timestamp]}
                   ELSE new = {}
              ELSE \E o \in old, n \in new :
                      /\ new = {n}
                      /\ n.lastEventTimestamp = t.timestamp
                      /\ n.currentVideoId = o.currentVideoId
                      /\ t.kind = "play"  => n.isPlaying = TRUE /\ n.progress = o.progress
                      /\ t.kind = "pause" => n.isPlaying = FALSE /\ n.progress = o.progress
                      /\ t.kind = "seek"  => n.progress = t.time /\ n.isPlaying = o.isPlaying ]_vars

\* a seek has moved a playing room that has a current video
C10_Witness ==
    \E e \in Events : \E s \in SyncState :
        /\ tasks[e].kind = "seek" /\ tasks[e].roomId = s.roomId
        /\ s.isPlaying = TRUE /\ s.currentVideoId = "v1"
        /\ s.progress = tasks[e].time /\ s.lastEventTimestamp = tasks[e].timestamp

\* C11: a sync:update caused by a video:play, video:pause or video:seek of socket c
\* for room R is addressed to exactly the sockets that are in R other than c: c never
\* receives its own update and no socket outside R receives it.
C11_ExcludesSender ==
    \A e \in Events : \A k \in Emitted(e, "sync:update") :
        tasks[e].kind \in PlayPauseSeek
        => /\ tasks[e].out[k].to =
                {d \in Sockets : tasks[e].roomId \in rooms[d]} \ {tasks[e].socket}
           /\ tasks[e].socket \notin tasks[e].out[k].to
           /\ \A d \in tasks[e].out[k].to : tasks[e].roomId \in rooms[d]

\* a play, a pause and a seek of c1 in r1 each reached c2 and nobody else
C11_Witness ==
    \A kind \in PlayPauseSeek :
        \E e \in Events : \E k \in Emitted(e, "sync:update") :
            /\ tasks[e].kind = kind /\ tasks[e].socket = "c1" /\ tasks[e].roomId = "r1"
            /\ "r1" \in rooms["c1"] /\ "r1" \notin rooms["c3"]
            /\ tasks[e].out[k].to = {"c2"}

\* positions a handler reaches only after its write to the store
AfterWrite == {"reread", "emit"}

\* C12: every error event is emitted to the socket whose event caused it and to no
\* other socket, and the event that is answered with an error has changed neither the
\* SyncState table nor the membership (RoomParticipant rows, sockets in rooms).
C12_ErrorsToSenderOnly ==
    [][ \A e \in 1..Len(tasks') :
          LET old == IF e \in Events THEN Len(tasks[e].out) ELSE 0
              t   == tasks'[e] IN
          \A k \in (old + 1)..Len(t.out) :
              t.out[k].type = "error"
              => /\ t.out[k].to = {t.socket}
                 /\ UNCHANGED <<SyncState, RoomParticipant, rooms>>
                 /\ e \in Events => tasks[e].pc \notin AfterWrite ]_vars

\* C13: when a store call of a video:play, video:pause, video:seek or video:change
\* fails, the sender is sent the handler's processing error and the handler has written
\* nothing to SyncState, whichever call failed: the write, the read-back before the
\* broadcast or the read inside the broadcast step.
C13_StoreFailureLeavesState ==
    [][ /\ (\E kind \in SyncKinds \ {"requestSync"} : \E c \in Sockets :
                StoreThrowsFirst(kind, c))
           => /\ NewTask.out = <<ErrorMsg(NewTask.socket, FailText(NewTask.kind))>>
              /\ UNCHANGED SyncState
        /\ \A e \in Events :
              StoreThrows(e)
              => /\ tasks'[e].out = tasks[e].out \o
                        <<ErrorMsg(tasks[e].socket, FailText(tasks[e].kind))>>
                 /\ tasks[e].pc \notin AfterWrite ]_vars

C14_AtMostOne ==
    /\ \A r \in Room \cup RoomIds : Cardinality(FindSyncState(r)) <= 1
    /\ \A e \in Events :
          ( /\ ~Anonymous(tasks[e].socket)
            /\ tasks[e].roomId \in Room
            /\ \/ tasks[e].kind = "play"
               \/ tasks[e].kind = "change" /\ tasks[e].pc \in {"emit", "done"}
                                           /\ Emitted(e, "error") = {} )
          => Cardinality(FindSyncState(tasks[e].roomId)) = 1
C14_PauseSeekNeverCreate ==
    ( /\ Started
      /\ NewTask.kind \in {"pause", "seek"}
      /\ FindSyncState(NewTask.roomId) = {} )
    => UNCHANGED SyncState
C15_PointerValid ==
    \A s \in SyncState :
        s.currentVideoId # NoVideo
        => \E v \in Video : v.id = s.currentVideoId /\ v.roomId = s.roomId
C15_DeleteSetsNull ==
    \A v \in Video :
        v \notin Video'
        => \A s \in SyncState :
              s.currentVideoId = v.id
              => [s EXCEPT !.currentVideoId = NoVideo] \in SyncState'
C15_CurrentVideoInRoom == []C15_PointerValid /\ [][C15_DeleteSetsNull]_vars

\* the room's current video v1, set by a video:change, was deleted, and an add-video
\* request then made its new video the current one
C15_Witness ==
    /\ \E e \in Events :
          /\ tasks[e].kind = "change" /\ tasks[e].videoId = "v1"
          /\ \E k \in Emitted(e, "sync:update") : tasks[e].out[k].payload.currentVideoId = "v1"
    /\ \A v \in Video : v.id # "v1"
    /\ \E s \in SyncState : s.roomId = "r1" /\ s.currentVideoId = "v3"

C17_GuardFlag ==
    [][ /\ player'.last \in {"effect:set", "loaded:set"} /\ player' # player
           => player'.isSeekingInternally
        /\ (player.isSeekingInternally /\ player'.seeking # player.seeking
                                       /\ Len(player'.seeking) < Len(player.seeking))
           => /\ ~player'.isSeekingInternally
              /\ player'.onSeek = player.onSeek ]_vars

\* the seeked event of a position set by the effect cleared the flag and called nothing
C17_Witness ==
    /\ player.last = "seeked:reset"
    /\ ~player.isSeekingInternally
    /\ player.onSeek = <<>>
    /\ player.pos = player.currentTime /\ player.pos > 0

\* room:userLeft messages about socket c and room r that tasks e and f sent to socket d
UserLeftTo(e, c, r, d) ==
    {k \in Emitted(e, "room:userLeft") :
        /\ tasks[e].out[k].payload.roomId = r
        /\ tasks[e].out[k].payload.userId = SocketUser(c)
        /\ d \in tasks[e].out[k].to}

\* C18: when a socket's room:leave for room r and its disconnect sweep have both
\* finished, under every interleaving of their store calls the outcome is that of one
\* leave: the socket is not in r, its RoomParticipant row is gone, neither handler has
\* emitted an error, and every other socket has received at most one room:userLeft
\* about it.
C18_LeaveDuringDisconnect ==
    \A e, f \in Events :
        ( /\ tasks[e].kind = "leave" /\ tasks[f].kind = "disconnecting"
          /\ tasks[e].socket = tasks[f].socket
          /\ ~Anonymous(tasks[e].socket)
          /\ Done(e) /\ Done(f)
          /\ \A j \in Events : tasks[j].kind # "join" )
        => LET c == tasks[e].socket
               r == tasks[e].roomId IN
           /\ r \notin rooms[c]
           /\ FindParticipant(SocketUser(c), r) = {}
           /\ Emitted(e, "error") = {} /\ Emitted(f, "error") = {}
           /\ \A d \in Sockets \ {c} :
                 Cardinality(UserLeftTo(e, c, r, d)) + Cardinality(UserLeftTo(f, c, r, d)) <= 1

\* C19: a room:join of a socket that is already in the room, its identity's
\* RoomParticipant row being there, changes neither the sockets in the room nor the
\* RoomParticipant table; in every reachable state there is at most one RoomParticipant
\* row per (userId, roomId), also when joins of one identity interleave.
C19_OneRowPerPair ==
    \A p, q \in RoomParticipant :
        (p.userId = q.userId /\ p.roomId = q.roomId) => p = q
C19_RejoinChangesNothing ==
    \A e \in Events :
        (tasks[e].kind = "join" /\ tasks'[e].pc # tasks[e].pc)
        => /\ ( /\ tasks[e].pc = "upsert"
                /\ FindParticipant(SocketUser(tasks[e].socket), tasks[e].roomId) # {} )
              => UNCHANGED RoomParticipant
           /\ ( /\ tasks[e].pc = "join"
                /\ tasks[e].roomId \in rooms[tasks[e].socket] )
              => UNCHANGED rooms
C20_JoinSteps ==
    /\ \A e \in Events :
          (tasks[e].kind = "join" /\ tasks[e].pc = "upsert" /\ tasks'[e].pc = "join")
          => \E p \in RoomParticipant' :
                p.userId = SocketUser(tasks[e].socket) /\ p.roomId = tasks[e].roomId
    /\ \A e \in Events :
          (tasks[e].kind = "join" /\ tasks[e].pc = "join" /\ tasks'[e].pc = "done")
          => LET c == tasks[e].socket
                 r == tasks[e].roomId IN
             /\ connected[c] => r \in rooms'[c]
             /\ \A d \in Sockets \ {c} : rooms'[d] = rooms[d]
             /\ Len(tasks'[e].out) = 2
             /\ tasks'[e].out[1].type = "room:userJoined"
             /\ tasks'[e].out[1].to = {d \in Sockets : r \in rooms'[d]} \ {c}
             /\ tasks'[e].out[2].type = "room:joined"
             /\ tasks'[e].out[2].to = {c}
    /\ ( /\ Started /\ NewTask.kind = "join"
         /\ ~Anonymous(NewTask.socket) /\ NewTask.roomId \notin Room )
       => /\ NewTask.pc = "done"
          /\ Len(NewTask.out) = 1
          /\ NewTask.out[1].type = "error" /\ NewTask.out[1].to = {NewTask.socket}
          /\ UNCHANGED <<rooms, RoomParticipant>>
C20_OnlyExistingRooms ==
    /\ \A c \in Sockets : rooms[c] \subseteq Room
    /\ \A p \in RoomParticipant : p.roomId \in Room
C20_JoinEffect == []C20_OnlyExistingRooms /\ [][C20_JoinSteps]_vars

\* c1 joined r1 after c2: room:userJoined went to c2, room:joined to c1, u1 got its
\* row; a join for r0 was answered with an error
C20_Witness ==
    /\ \E e \in Events :
          /\ tasks[e].kind = "join" /\ tasks[e].socket = "c1" /\ tasks[e].roomId = "r1"
          /\ Done(e) /\ Len(tasks[e].out) = 2
          /\ tasks[e].out[1].type = "room:userJoined" /\ tasks[e].out[1].to = {"c2"}
          /\ tasks[e].out[2].type = "room:joined" /\ tasks[e].out[2].to = {"c1"}
    /\ "r1" \in rooms["c1"] /\ FindParticipant("u1", "r1") # {}
    /\ \E e \in Events :
          /\ tasks[e].kind = "join" /\ tasks[e].roomId = "r0"
          /\ Emitted(e, "error") # {} /\ Done(e)

(***************************************************************************)
(* C22: the add-video route                                                *)
(***************************************************************************)

\* the request e answers with the given status in this step
Replies(e, status) ==
    /\ e \in 1..Len(tasks)
    /\ tasks[e].kind = "addVideo" /\ tasks[e].pc # "done"
    /\ tasks'[e].pc = "done"
    /\ tasks'[e].out = tasks[e].out \o <<Reply(tasks[e].socket, status)>>

\* a step of the request e from one position of the route to another
Moves(e, from, to) ==
    /\ e \in 1..Len(tasks)
    /\ tasks[e].kind = "addVideo"
    /\ tasks[e].pc = from /\ tasks'[e].pc = to

\* C22: the add-video route creates a Video only for a request that has passed the
\* room check (otherwise 404) and the participant check (otherwise 403). A request
\* that finds no SyncState creates one with currentVideoId = the new video,
\* isPlaying false and progress 0; one that finds a SyncState with a null pointer
\* sets only that pointer; one that finds a current video answers 201 and leaves
\* the SyncState as it is.
C22_AddVideoRoute ==
    [][ /\ (Started /\ NewTask.kind = "addVideo") =>
              /\ UNCHANGED <<Video, SyncState>>
              /\ IF NewTask.roomId \in Room
                 THEN NewTask.pc = "participant" /\ NewTask.out = <<>>
                 ELSE NewTask.pc = "done"
                      /\ NewTask.out = <<Reply(NewTask.socket, 404)>>
        /\ \A e \in Events : tasks[e].kind = "addVideo" =>
              LET t == tasks[e]
                  row == FindSyncState(t.roomId)
                  new == tasks'[e].videoId IN
              /\ tasks[e].pc = "participant" /\ tasks'[e].pc # "participant" =>
                    /\ UNCHANGED <<Video, SyncState>>
                    /\ IF FindParticipant(SocketUser(t.socket), t.roomId) = {}
                       THEN Replies(e, 403)
                       ELSE tasks'[e].pc = "create"
              /\ Moves(e, "create", "findSync") =>
                    /\ t.roomId \in Room
                    /\ new \notin {v.id : v \in Video}
                    /\ Video' = Video \cup {[id |-> new, roomId |-> t.roomId]}
                    /\ UNCHANGED SyncState
              /\ tasks[e].pc = "findSync" /\ tasks'[e].pc # "findSync" =>
                    /\ UNCHANGED <<Video, SyncState>>
                    /\ IF row = {} THEN tasks'[e].pc = "createSync"
                       ELSE IF \E x \in row : x.currentVideoId = NoVideo
                       THEN tasks'[e].pc = "updateSync"
                       ELSE Replies(e, 201)
              /\ tasks[e].pc = "createSync" /\ Replies(e, 201) =>
                    /\ row = {}
                    /\ SyncState' = SyncState \cup
                           {[roomId |-> t.roomId, currentVideoId |-> t.videoId,
                             isPlaying |-> FALSE, progress |-> 0,
                             lastEventTimestamp |-> 0]}
              /\ tasks[e].pc = "updateSync" /\ Replies(e, 201) =>
                    /\ row # {}
                    /\ SyncState' = (SyncState \ row) \cup
                           {[x EXCEPT !.currentVideoId = t.videoId] : x \in row}
        /\ Video' \ Video # {} => \E a \in Events : Moves(a, "create", "findSync")
      ]_vars

\* three requests have been answered: one created the SyncState of r1 for its new
\* video, one was refused with 403 and one with 404
C22_Witness ==
    /\ \E e \in Events :
          /\ tasks[e].kind = "addVideo" /\ Done(e)
          /\ tasks[e].out = <<Reply(tasks[e].socket, 201)>>
          /\ [roomId |-> "r1", currentVideoId |-> tasks[e].videoId,
              isPlaying |-> FALSE, progress |-> 0, lastEventTimestamp |-> 0]
                 \in SyncState
    /\ \E e \in Events : tasks[e].kind = "addVideo"
                         /\ tasks[e].out = <<Reply(tasks[e].socket, 403)>>
    /\ \E e \in Events : tasks[e].kind = "addVideo"
                         /\ tasks[e].out = <<Reply(tasks[e].socket, 404)>>

(***************************************************************************)
(* C23: the invitation route                                               *)
(***************************************************************************)

\* the invitation e answers with the given status in this step
Answers(e, status) ==
    /\ tasks[e].pc # "done" /\ tasks'[e].pc = "done"
    /\ tasks'[e].out = tasks[e].out \o <<Reply(tasks[e].socket, status)>>

\* C23: an invitation is checked in the order room (404), caller's record (403),
\* invitee (404), invitee's record (409), and each failed check answers without
\* touching the records; it creates a record only after all four checks have
\* passed, and then exactly one, for the invitee and the room. No user ever has
\* two records for one room.
C23_InviteRoute ==
    /\ [][ /\ (Started /\ NewTask.kind = "invite") =>
                 /\ UNCHANGED RoomParticipant
                 /\ IF NewTask.roomId \in Room
                    THEN NewTask.pc = "inviter" /\ NewTask.out = <<>>
                    ELSE NewTask.pc = "done"
                         /\ NewTask.out = <<Reply(NewTask.socket, 404)>>
           /\ \A e \in Events : tasks[e].kind = "invite" /\ tasks'[e] # tasks[e] =>
                 LET t == tasks[e]
                     caller == FindParticipant(SocketUser(t.socket), t.roomId)
                     record == FindParticipant(t.userIdToInvite, t.roomId) IN
                 /\ t.pc = "inviter" =>
                       /\ UNCHANGED RoomParticipant
                       /\ IF caller = {} THEN Answers(e, 403)
                          ELSE tasks'[e].pc = "invitee"
                 /\ t.pc = "invitee" =>
                       /\ UNCHANGED RoomParticipant
                       /\ IF t.userIdToInvite \notin User THEN Answers(e, 404)
                          ELSE tasks'[e].pc = "existing"
                 /\ t.pc = "existing" =>
                       /\ UNCHANGED RoomParticipant
                       /\ IF record # {} THEN Answers(e, 409)
                          ELSE tasks'[e].pc = "create"
                 /\ t.pc = "create" =>
                       /\ t.roomId \in Room /\ t.userIdToInvite \in User
                       /\ IF Answers(e, 201)
                          THEN /\ record = {}
                               /\ \E p \in RoomParticipant' :
                                     /\ p.userId = t.userIdToInvite
                                     /\ p.roomId = t.roomId
                                     /\ RoomParticipant' = RoomParticipant \cup {p}
                          ELSE UNCHANGED RoomParticipant
           /\ \A p \in RoomParticipant' \ RoomParticipant :
                 \E e \in Events : /\ tasks[e].kind = "invite"
                                   /\ tasks[e].pc = "create"
                                   /\ Answers(e, 201)
         ]_vars
    /\ [](\A p, q \in RoomParticipant :
              p.userId = q.userId /\ p.roomId = q.roomId => p = q)

\* u2 has invited u1 to r2 and the record is there; other invitations were refused
\* with 409 and with 403
C23_Witness ==
    /\ \E e \in Events :
          /\ tasks[e].kind = "invite" /\ tasks[e].userIdToInvite = "u1"
          /\ tasks[e].roomId = "r2"
          /\ tasks[e].out = <<Reply(tasks[e].socket, 201)>>
    /\ Cardinality(FindParticipant("u1", "r2")) = 1
    /\ \E e \in Events : tasks[e].kind = "invite"
                         /\ tasks[e].out = <<Reply(tasks[e].socket, 409)>>
    /\ \E e \in Events : tasks[e].kind = "invite"
                         /\ tasks[e].out = <<Reply(tasks[e].socket, 403)>>

(***************************************************************************)
(* C24: the broadcast guard of play, pause and seek                        *)
(***************************************************************************)

\* C24: a play, pause or seek handler gets to its broadcast only through a re-read
\* of the stored record, made in a step after its write, that finds
\* lastEventTimestamp equal to the event's timestamp.
C24_GuardAfterReread ==
    [][ \A e \in 1..Len(tasks') :
           (/\ tasks'[e].kind \in PlayPauseSeek
            /\ tasks'[e].pc = "emit"
            /\ (e \in Events => tasks[e].pc # "emit"))
           => /\ e \in Events
              /\ tasks[e].pc = "reread"
              /\ UNCHANGED SyncState
              /\ \E s \in FindSyncState(tasks[e].roomId) :
                    s.lastEventTimestamp = tasks[e].timestamp
      ]_vars

(***************************************************************************)
(* C25: a seek and a pause on the same record                              *)
(***************************************************************************)

\* the two latest events are a seek and a pause for one room, in either order of
\* arrival, from senders with an identity; an earlier play has created the record
\* and no change-video handler can write between them
SeekAndPause(a, b) ==
    /\ Len(tasks) >= 3
    /\ \A k \in Events : tasks[k].kind = "change" => tasks[k].roomId # tasks[a].roomId
    /\ {a, b} = {Len(tasks) - 1, Len(tasks)}
    /\ tasks[a].kind = "seek" /\ tasks[b].kind = "pause"
    /\ tasks[a].roomId = tasks[b].roomId
    /\ ~Anonymous(tasks[a].socket) /\ ~Anonymous(tasks[b].socket)
    /\ \E k \in 1..(Len(tasks) - 2) :
          /\ tasks[k].kind = "play" /\ ~Anonymous(tasks[k].socket)
          /\ tasks[k].roomId = tasks[a].roomId /\ tasks[k].roomId \in Room

\* C25: with a SyncState in place, a seek {time x, timestamp a} and a pause
\* {timestamp b} that arrive one after the other, in either order and with the rest
\* of their handlers interleaved in any way, leave isPlaying = false and
\* progress = x, whichever of a and b is larger.
C25_SeekAndPauseBothApply ==
    \A a, b \in Events :
        SeekAndPause(a, b) =>
            \A s \in FindSyncState(tasks[a].roomId) :
                s.isPlaying = FALSE /\ s.progress = tasks[a].time

\* the seek arrived after the pause with the smaller timestamp, both handlers have
\* finished, and the record is paused at the seek's position
C25_Witness ==
    \E a, b \in Events :
        /\ SeekAndPause(a, b) /\ b < a
        /\ tasks[a].timestamp < tasks[b].timestamp
        /\ Done(a) /\ Done(b)
        /\ \E s \in FindSyncState(tasks[a].roomId) :
              ~s.isPlaying /\ s.progress = tasks[a].time /\ s.progress # 0

(***************************************************************************)
(* C26: the outcome of every control event                                 *)
(***************************************************************************)

\* the handler started in this step has written its own field and its timestamp
WroteAtStart ==
    \E s \in SyncState' :
        /\ s.roomId = NewTask.roomId
        /\ s.lastEventTimestamp = NewTask.timestamp
        /\ WroteOwnField(NewTask, s)

\* the handler started in this step has sent an error to its sender
ReportedAtStart ==
    \E k \in 1..Len(NewTask.out) :
        NewTask.out[k].type = "error" /\ NewTask.out[k].to = {NewTask.socket}

\* a play, pause or seek of a sender with identity starts in this step
ControlStarts ==
    /\ Started
    /\ NewTask.kind \in PlayPauseSeek
    /\ ~Anonymous(NewTask.socket)

\* the stored record is newer than the event and stays as it is
DiscardedAsOlder ==
    /\ UNCHANGED SyncState
    /\ \E s \in FindSyncState(NewTask.roomId) :
          s.lastEventTimestamp > NewTask.timestamp

\* the change-video handler e makes its upsert call in this step: it writes the
\* record or reports to the sender
ChangeOutcome(e) ==
    LET t == tasks[e] IN
    \/ /\ tasks'[e].out = t.out
       /\ \E s \in SyncState' : /\ s.roomId = t.roomId
                                /\ s.currentVideoId = t.videoId
                                /\ s.lastEventTimestamp = t.timestamp
    \/ /\ UNCHANGED SyncState
       /\ Len(tasks'[e].out) = Len(t.out) + 1
       /\ tasks'[e].out[Len(tasks'[e].out)].type = "error"
       /\ tasks'[e].pc = "done"

NeverJoined(e) ==
    /\ tasks[e].roomId \notin rooms[tasks[e].socket]
    /\ \A j \in Events : tasks[j].kind = "join" =>
          tasks[j].socket # tasks[e].socket \/ tasks[j].roomId # tasks[e].roomId

\* C30: a room:leave for a room the connection has not joined changes nothing: the
\* room's connections and every Participant record stay as they are, also a record
\* that came from an invitation or from another connection of the same identity,
\* and no error is sent.
C30_LeaveNotJoinedIsNoOp ==
    [][ \A e \in Events :
           (/\ tasks[e].kind = "leave"
            /\ ~Anonymous(tasks[e].socket)
            /\ NeverJoined(e)
            /\ tasks'[e] # tasks[e])
           => /\ UNCHANGED <<RoomParticipant, rooms>>
              /\ \A k \in 1..Len(tasks'[e].out) : tasks'[e].out[k].type # "error"
      ]_vars

(***************************************************************************)
(* C27: no echo of an applied sync:update                                  *)
(***************************************************************************)

\* C27: the player calls onPlay and onPause, on which the room page emits
\* video:play and video:pause, only for what the user did with the controls, never
\* for a play() or pause() that the play/pause effect made to apply new props.
C27_OnlyUserActionsEmit ==
    /\ \A k \in 1..Len(player.onPlay)  : player.onPlay[k]  = "user"
    /\ \A k \in 1..Len(player.onPause) : player.onPause[k] = "user"

(***************************************************************************)
(* C28: rejoin and resync after a reconnection                             *)
(***************************************************************************)

\* the position in page.log of the socket's latest connect
LastConnect ==
    CHOOSE j \in 1..Len(page.log) :
        /\ page.log[j].type = "connect"
        /\ \A k \in (j + 1)..Len(page.log) : page.log[k].type # "connect"

\* the page had joined the room, the connection was lost, the socket is connected
\* again and the page has run its effects for it
Reconnected ==
    /\ page.connected
    /\ page.deps = EffectDeps
    /\ \E h, i, j \in 1..Len(page.log) :
          /\ h < i /\ i < j
          /\ page.log[h].type = "room:join"
          /\ page.log[i].type = "disconnect"
          /\ page.log[j].type = "connect"

\* C28: once the connection has been re-established and the page has reacted, the
\* client has emitted room:join and after it video:requestSync on the new
\* connection, whether or not it holds a sync state.
C28_RejoinAndResync ==
    Reconnected =>
        \E a, b \in (LastConnect + 1)..Len(page.log) :
            /\ a < b
            /\ page.log[a].type = "room:join"
            /\ page.log[b].type = "video:requestSync"

(***************************************************************************)
(* C29: the debounce of seeks                                              *)
(***************************************************************************)

\* the calls of handleSeek and what their timers did, in order
SeekLog ==
    SelectSeq(page.log, LAMBDA x : x.type \in {"handleSeek", "video:seek", "warn"})

\* C29: every video:seek follows, among the seeks, directly on a call of handleSeek
\* and carries that call's position, so that a burst of calls, each made while the
\* timer of the one before is pending, gives one video:seek with the last position;
\* at most one timer is pending, that of the latest call; and a timer that runs
\* while the socket is connected emits.
C29_Inv ==
    /\ \A k \in 1..Len(SeekLog) :
          SeekLog[k].type \in {"video:seek", "warn"} =>
              /\ k > 1
              /\ SeekLog[k - 1].type = "handleSeek"
              /\ SeekLog[k - 1].time = SeekLog[k].time
    /\ page.timers = IF SeekLog # <<>> /\ SeekLog[Len(SeekLog)].type = "handleSeek"
                     THEN <<SeekLog[Len(SeekLog)].time>> ELSE <<>>
C29_TimerEmits ==
    (Len(page'.timers) < Len(page.timers) /\ page.connected)
    => page'.log = Append(page.log, Entry("video:seek", page.timers[1]))
C29_OneSeekPerBurst == []C29_Inv /\ [][C29_TimerEmits]_vars

\* a burst of two seeks has ended with one video:seek for the second position
C29_Witness ==
    /\ page.timers = <<>>
    /\ \E k \in 1..Len(SeekLog) :
          /\ k + 2 = Len(SeekLog)
          /\ SeekLog[k].type = "handleSeek" /\ SeekLog[k].time = 1
          /\ SeekLog[k + 1].type = "handleSeek" /\ SeekLog[k + 1].time = 2
          /\ SeekLog[k + 2] = Entry("video:seek", 2)
          /\ (k > 1 => SeekLog[k - 1].type # "handleSeek")

(***************************************************************************)
(* C21: the pages converge on the stored SyncState                         *)
(***************************************************************************)

\* every control event has been processed and every sync:update delivered
Quiescent ==
    /\ \A e \in Events : Done(e)
    /\ \A c \in Sockets : screens[c].inbox = <<>>

\* the page of connection c holds the play/pause state, progress and current video
\* of the stored row s
Holds(c, s) ==
    /\ screens[c].currentSyncState.isPlaying = s.isPlaying
    /\ screens[c].currentSyncState.progress = s.progress
    /\ screens[c].currentSyncState.currentVideoId = s.currentVideoId

\* C21: in every quiescent state, each connection that is in the room holds the
\* play/pause state, the progress and the current video of the room's stored
\* SyncState, however the control events of the clients were interleaved.
C21_PagesAgreeWithStore ==
    Quiescent =>
        \A c \in Sockets : SyncRoom \in rooms[c] =>
            \A s \in FindSyncState(SyncRoom) : Holds(c, s)

\* C31: a video:requestSync whose roomId names no Room is answered with an error
\* event to the requester and with no sync:update.
C31_RequestSyncNeedsRoom ==
    [][ ( /\ Started
          /\ NewTask.kind = "requestSync"
          /\ ~Anonymous(NewTask.socket)
          /\ NewTask.roomId \notin Room )
        => ( /\ \E k \in 1..Len(NewTask.out) :
                   NewTask.out[k].type = "error" /\ NewTask.out[k].to = {NewTask.socket}
             /\ \A k \in 1..Len(NewTask.out) : NewTask.out[k].type # "sync:update" ) ]_vars

\* the field is a string with a character that is not white space
HasText(x) ==
    /\ x.typeof = "string"
    /\ \E i \in 1..Len(x.value) : SubSeq(x.value, i, i) # " "

\* text without the white space before its first and after its last other character
Trimmed(text, whole) ==
    \E i, j \in 1..Len(whole) :
        /\ text = SubSeq(whole, i, j)
        /\ SubSeq(whole, i, i) # " " /\ SubSeq(whole, j, j) # " "
        /\ \A k \in 1..Len(whole) : (k < i \/ k > j) => SubSeq(whole, k, k) = " "

ChatAccepted(t) ==
    /\ ~Anonymous(t.socket)
    /\ HasText(t.payload.roomId)
    /\ HasText(t.payload.message)

\* one chat:newMessage to every connection joined to the room, the sender included
\* when it is joined, carrying the trimmed message and the sender's identity
FannedOut(t) ==
    /\ Len(t.out) = 1
    /\ t.out[1].type = "chat:newMessage"
    /\ t.out[1].to = {c \in Sockets : t.payload.roomId.value \in rooms[c]}
    /\ Trimmed(t.out[1].payload.message, t.payload.message.value)
    /\ t.out[1].payload.userId = SocketUser(t.socket)
    /\ t.out[1].payload.roomId = t.payload.roomId.value

ErrorToSender(t) ==
    /\ Len(t.out) = 1
    /\ t.out[1].type = "error"
    /\ t.out[1].to = {t.socket}

C33_PayloadPassedGuard ==
    [][ \A e \in Events :
          ( /\ tasks[e].kind \in PlayPauseSeek
            /\ tasks[e].pc = "emit"
            /\ tasks'[e].pc = "done" )
          => \A k \in (Len(tasks[e].out) + 1)..Len(tasks'[e].out) :
                LET m == tasks'[e].out[k] IN
                m.type = "sync:update"
                => /\ m.payload.lastEventTimestamp = tasks[e].timestamp
                   /\ WroteOwnField(tasks[e], m.payload) ]_vars

\* the messages a step emits: those of a handler it starts and those it appends to
\* a running handler
NewMessages ==
    {m \in UNION {{tasks'[e].out[k] : k \in 1..Len(tasks'[e].out)} : e \in 1..Len(tasks')} :
        \E e \in 1..Len(tasks') : \E k \in 1..Len(tasks'[e].out) :
            /\ tasks'[e].out[k] = m
            /\ e > Len(tasks) \/ k > Len(tasks[e].out)}

\* C34: every sync:update, broadcast or video:requestSync reply, goes only to
\* connections that are joined to the room it describes when it is emitted.
C34_SyncOnlyToJoined ==
    [][ \A m \in NewMessages :
          m.type = "sync:update" => \A c \in m.to : m.payload.roomId \in rooms[c] ]_vars

\* C35: whenever a live connection of identity U is joined to room R, a
\* RoomParticipant record (U, R) exists: when a room:leave of a connection joined to R,
\* or the disconnect of a connection that was joined to R, runs its delete while
\* another live connection of the same identity is joined to R, the record (U, R)
\* is still there afterwards.
C35_RecordWhileJoined ==
    [][ \A e \in Events :
          LET t == tasks[e] IN
          ( /\ t.pc \in {"deleteMany", "delete"}
            /\ tasks'[e].pc # t.pc
            /\ t.kind = "leave" => t.roomId \in rooms[t.socket] )
          => \A c \in Sockets \ {t.socket} :
                ( /\ connected[c]
                  /\ SocketUser(c) = SocketUser(t.socket)
                  /\ t.roomId \in rooms[c] )
                => \E p \in RoomParticipant' :
                      p.userId = SocketUser(c) /\ p.roomId = t.roomId ]_vars

\* C36: the seeked event of a programmatic position change, made by the currentTime
\* effect or by handleLoadedData, never results in a call of onSeek.
C36_ProgrammaticSeekSilent ==
    [][ ( /\ player.seeking # <<>>
          /\ player'.seeking = Tail(player.seeking)
          /\ Head(player.seeking) \in {"effect", "loaded"} )
        => player'.onSeek = player.onSeek ]_vars

\* C37: a finished add-video request has answered 201 exactly when it created a Video
\* record, whatever ran between its steps.
C37_CreatedIffAnswered201 ==
    \A e \in Events :
        (tasks[e].kind = "addVideo" /\ Done(e))
        => ( (\E k \in 1..Len(tasks[e].out) : tasks[e].out[k] = Reply(tasks[e].socket, 201))
             <=> tasks[e].videoId # NoVideo )

\* the current video of room r, null when the room has no SyncState
CurrentVideo(r) ==
    IF FindSyncState(r) = {} THEN NoVideo
    ELSE (CHOOSE s \in FindSyncState(r) : TRUE).currentVideoId

\* a sync:update saying that v is the current video of room r has been sent to the
\* connections joined to r
Announced(r, v) ==
    \E e \in Events : \E k \in 1..Len(tasks[e].out) :
        /\ tasks[e].out[k].type = "sync:update"
        /\ tasks[e].out[k].to = InRoom(r)
        /\ tasks[e].out[k].payload.roomId = r
        /\ tasks[e].out[k].payload.currentVideoId = v

\* C38: once a video:change or the add-video route has made v the current video of
\* r1, a sync:update announcing it to the room follows, unless the current video
\* changes again first.
C38_SelectionAnnounced ==
    \A v \in {"v1"} \cup {NewVideoIds[i] : i \in 1..MaxEvents} :
        (CurrentVideo("r1") = v) ~> (Announced("r1", v) \/ CurrentVideo("r1") # v)

\* C39: every stored SyncState with isPlaying = true has a current video.
C39_PlayingHasVideo ==
    \A s \in SyncState : s.isPlaying => s.currentVideoId # NoVideo

====
